---- MODULE Spec2Model ----
(***************************************************************************)
(* The survey dashboard of src/embedded_app.py as a state machine: the     *)
(* construction of SmallBusinessDashboard (load_data, then the eight steps *)
(* of clean_data), followed by filter_data and chart-builder calls on the  *)
(* cleaned table.                                                          *)
(*                                                                         *)
(* Representation.  A Python str is the sequence of its characters, so     *)
(* that split, strip, lower and the substring test are computed as the     *)
(* code computes them.  A DataFrame is a record [cols, dups, rows]: the    *)
(* set of column labels, the labels carried by more than one column, and   *)
(* the sequence of rows, each row a function from cols to cells.  A        *)
(* missing value of an object column (NaN / None) is NA; a numeric cell is *)
(* a record [nan, v].                                                      *)
(***************************************************************************)
EXTENDS Integers, Sequences, FiniteSets, TLC

VARIABLES file, pc, raw_data, data, selection, filtered_data, chart, entries, entry_list,
          parsed, warning

vars ==
  <<file, pc, raw_data, data, selection, filtered_data, chart, entries, entry_list, parsed,
    warning>>

(***************************************************************************)
(* Bounds of the model.                                                    *)
(***************************************************************************)
MaxRows == 2
MaxEntries == 2
MaxEntryLen == 2

(***************************************************************************)
(* String literals of the source, character by character.                  *)
(***************************************************************************)
NotProvided == <<"N","o","t"," ","p","r","o","v","i","d","e","d">>
All == <<"A","l","l">>
SmallBusiness == <<"S","m","a","l","l"," ","B","u","s","i","n","e","s","s">>
LargeContractor == <<"L","a","r","g","e"," ","C","o","n","t","r","a","c","t","o","r">>
Government == <<"G","o","v","e","r","n","m","e","n","t">>
Consultant == <<"C","o","n","s","u","l","t","a","n","t">>
Academic == <<"A","c","a","d","e","m","i","c">>
Other == <<"O","t","h","e","r">>
AffSmallBusiness == <<"S","m","a","l","l"," ","b","u","s","i","n","e","s","s"," ","o","w","n","e","r","/","e","m","p","l","o","y","e","e"," ","s","e","e","k","i","n","g"," ","g","o","v","e","r","n","m","e","n","t"," ","c","o","n","t","r","a","c","t","s">>
AffLargeContractor == <<"E","m","p","l","o","y","e","e"," ","o","f"," ","l","a","r","g","e"," ","g","o","v","e","r","n","m","e","n","t"," ","c","o","n","t","r","a","c","t","o","r">>
AffGovernment == <<"G","o","v","e","r","n","m","e","n","t"," ","e","m","p","l","o","y","e","e"," ","i","n","v","o","l","v","e","d"," ","i","n"," ","p","r","o","c","u","r","e","m","e","n","t","/","c","o","n","t","r","a","c","t","i","n","g">>
AffConsultant == <<"C","o","n","s","u","l","t","a","n","t","/","a","d","v","i","s","o","r"," ","t","o"," ","b","u","s","i","n","e","s","s","e","s"," ","s","e","e","k","i","n","g"," ","g","o","v","e","r","n","m","e","n","t"," ","c","o","n","t","r","a","c","t","s">>
AffAcademic == <<"A","c","a","d","e","m","i","c","/","r","e","s","e","a","r","c","h","e","r"," ","s","t","u","d","y","i","n","g"," ","g","o","v","e","r","n","m","e","n","t"," ","c","o","n","t","r","a","c","t","i","n","g">>
AffOther == <<"O","t","h","e","r"," ","s","t","a","k","e","h","o","l","d","e","r"," ","i","n"," ","t","h","e"," ","f","e","d","e","r","a","l"," ","m","a","r","k","e","t","p","l","a","c","e">>
sub_small_business == <<"s","m","a","l","l"," ","b","u","s","i","n","e","s","s">>
sub_large == <<"l","a","r","g","e">>
sub_contractor == <<"c","o","n","t","r","a","c","t","o","r">>
sub_government == <<"g","o","v","e","r","n","m","e","n","t">>
sub_consultant == <<"c","o","n","s","u","l","t","a","n","t">>
sub_advisor == <<"a","d","v","i","s","o","r">>
sub_academic == <<"a","c","a","d","e","m","i","c">>
sub_research == <<"r","e","s","e","a","r","c","h">>
VeryLow == <<"V","e","r","y"," ","L","o","w">>
Low == <<"L","o","w">>
Moderate == <<"M","o","d","e","r","a","t","e">>
High == <<"H","i","g","h">>
VeryHigh == <<"V","e","r","y"," ","H","i","g","h">>
NotRated == <<"N","o","t"," ","R","a","t","e","d">>
nan == <<"n","a","n">>
T_6_12_months == <<"6","-","1","2"," ","m","o","n","t","h","s">>
T_1_2_years == <<"1","-","2"," ","y","e","a","r","s">>
T_2_3_years == <<"2","-","3"," ","y","e","a","r","s">>
T_More_than_3_years == <<"M","o","r","e"," ","t","h","a","n"," ","3"," ","y","e","a","r","s">>
T_Unsure == <<"U","n","s","u","r","e">>
H_Cybersecurity == <<"C","y","b","e","r","s","e","c","u","r","i","t","y"," ","r","e","q","u","i","r","e","m","e","n","t","s">>
H_FindingContact == <<"F","i","n","d","i","n","g"," ","t","h","e"," ","r","i","g","h","t"," ","p","o","i","n","t","s"," ","o","f"," ","c","o","n","t","a","c","t">>
H_Navigating == <<"N","a","v","i","g","a","t","i","n","g"," ","m","u","l","t","i","p","l","e"," ","s","y","s","t","e","m","s","/","w","e","b","s","i","t","e","s">>
H_SAM == <<"S","A","M",".","g","o","v"," ","r","e","g","i","s","t","r","a","t","i","o","n"," ","c","o","m","p","l","e","x","i","t","y">>
H_Certification == <<"S","m","a","l","l"," ","b","u","s","i","n","e","s","s"," ","c","e","r","t","i","f","i","c","a","t","i","o","n"," ","p","r","o","c","e","s","s","e","s">>
H_TimeRequired == <<"T","i","m","e"," ","r","e","q","u","i","r","e","d"," ","t","o"," ","c","o","m","p","l","e","t","e"," ","r","e","g","i","s","t","r","a","t","i","o","n","s">>
H_Terminology == <<"U","n","d","e","r","s","t","a","n","d","i","n","g"," ","s","p","e","c","i","a","l","i","z","e","d"," ","t","e","r","m","i","n","o","l","o","g","y">>
H_WhereToBegin == <<"U","n","d","e","r","s","t","a","n","d","i","n","g"," ","w","h","e","r","e","/","h","o","w"," ","t","o"," ","b","e","g","i","n">>
H_DUNS == <<"D","U","N","S","/","U","E","I"," ","n","u","m","b","e","r"," ","a","c","q","u","i","s","i","t","i","o","n">>
SampleHurdles == <<"C","y","b","e","r","s","e","c","u","r","i","t","y"," ","r","e","q","u","i","r","e","m","e","n","t","s",","," ","F","i","n","d","i","n","g"," ","t","h","e"," ","r","i","g","h","t"," ","p","o","i","n","t","s"," ","o","f"," ","c","o","n","t","a","c","t">>
SampleBarriers == <<"C","o","m","p","e","t","i","n","g"," ","a","g","a","i","n","s","t"," ","m","o","r","e"," ","e","x","p","e","r","i","e","n","c","e","d"," ","b","u","s","i","n","e","s","s","e","s",","," ","M","e","e","t","i","n","g"," ","c","o","m","p","l","i","a","n","c","e"," ","s","t","a","n","d","a","r","d","s">>
B_Competing == <<"C","o","m","p","e","t","i","n","g"," ","a","g","a","i","n","s","t"," ","m","o","r","e"," ","e","x","p","e","r","i","e","n","c","e","d"," ","b","u","s","i","n","e","s","s","e","s">>
B_Compliance == <<"M","e","e","t","i","n","g"," ","c","o","m","p","l","i","a","n","c","e"," ","s","t","a","n","d","a","r","d","s">>
SampleFactors == <<"C","o","m","p","e","t","i","t","i","o","n"," ","f","r","o","m"," ","e","s","t","a","b","l","i","s","h","e","d"," ","c","o","n","t","r","a","c","t","o","r","s",","," ","R","e","s","o","u","r","c","e"," ","c","o","n","s","t","r","a","i","n","t","s">>
F_Competition == <<"C","o","m","p","e","t","i","t","i","o","n"," ","f","r","o","m"," ","e","s","t","a","b","l","i","s","h","e","d"," ","c","o","n","t","r","a","c","t","o","r","s">>
F_Resource == <<"R","e","s","o","u","r","c","e"," ","c","o","n","s","t","r","a","i","n","t","s">>
SampleResources == <<"C","e","n","t","r","a","l","i","z","e","d"," ","\"","g","e","t","t","i","n","g"," ","s","t","a","r","t","e","d","\""," ","p","o","r","t","a","l",","," ","M","e","n","t","o","r","s","h","i","p"," ","p","r","o","g","r","a","m","s">>
R_Portal == <<"C","e","n","t","r","a","l","i","z","e","d"," ","\"","g","e","t","t","i","n","g"," ","s","t","a","r","t","e","d","\""," ","p","o","r","t","a","l">>
R_Mentorship == <<"M","e","n","t","o","r","s","h","i","p"," ","p","r","o","g","r","a","m","s">>
Chg_Simplified == <<"S","i","m","p","l","i","f","i","e","d"," ","r","e","g","i","s","t","r","a","t","i","o","n"," ","p","r","o","c","e","s","s">>
Chg_Training == <<"B","e","t","t","e","r"," ","t","r","a","i","n","i","n","g">>
Chg_Portal == <<"C","e","n","t","r","a","l","i","z","e","d"," ","p","o","r","t","a","l">>
Chg_Mentorship == <<"M","e","n","t","o","r","s","h","i","p"," ","p","r","o","g","r","a","m","s">>
Chg_PlainLanguage == <<"P","l","a","i","n"," ","l","a","n","g","u","a","g","e"," ","g","u","i","d","e","s">>
Stage_Registration == <<"I","n","i","t","i","a","l"," ","r","e","g","i","s","t","r","a","t","i","o","n"," ","(","S","A","M",".","g","o","v"," ","c","e","r","t","i","f","i","c","a","t","i","o","n","s",")">>
Stage_Solicitation == <<"U","n","d","e","r","s","t","a","n","d","i","n","g"," ","s","o","l","i","c","i","t","a","t","i","o","n"," ","r","e","q","u","i","r","e","m","e","n","t","s">>
Stage_Opportunities == <<"F","i","n","d","i","n","g"," ","r","e","l","e","v","a","n","t"," ","o","p","p","o","r","t","u","n","i","t","i","e","s">>
Stage_Proposal == <<"P","r","o","p","o","s","a","l"," ","d","e","v","e","l","o","p","m","e","n","t"," ","a","n","d"," ","s","u","b","m","i","s","s","i","o","n">>
Stage_Negotiation == <<"C","o","n","t","r","a","c","t"," ","n","e","g","o","t","i","a","t","i","o","n"," ","a","n","d"," ","a","w","a","r","d">>

(***************************************************************************)
(* Python str operations.                                                  *)
(***************************************************************************)
Whitespace == {" ", "\t", "\n", "\r"}

RECURSIVE lstrip(_)
lstrip(s) ==
  IF s # <<>> /\ Head(s) \in Whitespace THEN lstrip(Tail(s)) ELSE s

RECURSIVE rstrip(_)
rstrip(s) ==
  IF s # <<>> /\ s[Len(s)] \in Whitespace
    THEN rstrip(SubSeq(s, 1, Len(s) - 1))
    ELSE s

\* str.strip()
strip(s) == rstrip(lstrip(s))

\* str.split(sep) for a one-character separator: "".split(",") is [""]
RECURSIVE split(_, _)
split(s, sep) ==
  IF \A i \in 1..Len(s) : s[i] # sep
    THEN <<s>>
    ELSE LET i == CHOOSE k \in 1..Len(s) :
                    s[k] = sep /\ \A j \in 1..(k - 1) : s[j] # sep
         IN  <<SubSeq(s, 1, i - 1)>> \o split(SubSeq(s, i + 1, Len(s)), sep)

\* sep.join(l)
RECURSIVE join(_, _)
join(sep, l) ==
  IF l = <<>> THEN <<>>
  ELSE IF Len(l) = 1 THEN l[1]
  ELSE l[1] \o sep \o join(sep, Tail(l))

UpperCase ==
  <<"A","B","C","D","E","F","G","H","I","J","K","L","M",
    "N","O","P","Q","R","S","T","U","V","W","X","Y","Z">>
LowerCase ==
  <<"a","b","c","d","e","f","g","h","i","j","k","l","m",
    "n","o","p","q","r","s","t","u","v","w","x","y","z">>

lower_char(c) ==
  IF \E i \in DOMAIN UpperCase : UpperCase[i] = c
    THEN LowerCase[CHOOSE i \in DOMAIN UpperCase : UpperCase[i] = c]
    ELSE c

\* str.lower()
lower(s) == [i \in 1..Len(s) |-> lower_char(s[i])]

\* sub in s
contains(sub, s) ==
  \E i \in 0..(Len(s) - Len(sub)) : SubSeq(s, i + 1, i + Len(sub)) = sub

\* x in l, for a list l
in_list(x, l) == \E i \in 1..Len(l) : l[i] = x

Digits == <<"0","1","2","3","4","5","6","7","8","9">>

is_digit(c) == \E i \in DOMAIN Digits : Digits[i] = c

digit_value(c) == (CHOOSE i \in DOMAIN Digits : Digits[i] = c) - 1

RECURSIVE int_value(_)
int_value(s) ==
  IF s = <<>> THEN 0
  ELSE 10 * int_value(SubSeq(s, 1, Len(s) - 1)) + digit_value(s[Len(s)])

(***************************************************************************)
(* Cells.                                                                  *)
(***************************************************************************)
\* the missing value of an object column (NaN, None)
NA == <<"NaN">>

\* numeric cells: a number, or the floating-point NaN
Num(n) == [nan |-> FALSE, v |-> n]
NaN == [nan |-> TRUE, v |-> 0]

(***************************************************************************)
(* DataFrames.                                                             *)
(***************************************************************************)
DataFrame(cols, rows) == [cols |-> cols, dups |-> {}, rows |-> rows]

\* self.raw_data = None, self.data = None: no operation reads a table
\* before load_data and clean_data have assigned it
None == DataFrame({}, <<>>)

\* df[c] = F(row), row by row
with_column(df, c, F(_)) ==
  [df EXCEPT
     !.cols = @ \cup {c},
     !.rows = [i \in 1..Len(df.rows) |->
                 [k \in df.cols \cup {c} |->
                    IF k = c THEN F(df.rows[i]) ELSE df.rows[i][k]]]]

\* the column headers of the survey export
RC_ID == "ID"
RC_Affiliation == "Affiliation"
RC_Hurdles == "Most significant hurdle?"
RC_Complexity == "Onboarding Complexity"
RC_Timeline == "TImeline to receive first Government Contract award?"
RC_Barriers == "What do you perceive as the biggest barriers for small businesses pursuing their first federal contract? (Select up to 3)"
RC_Change == "What single change can reduce barriers?"
RC_Factors == "Most challenging factors for Small Businesses to enter marketplace"
RC_Resources == "Needed resources? "
RC_Stage == "Which stage of the onboarding process would benefit most from simplification?"

column_mapping(c) ==
  CASE c = RC_ID -> "id"
    [] c = RC_Affiliation -> "affiliation"
    [] c = RC_Hurdles -> "significant_hurdles"
    [] c = RC_Complexity -> "onboarding_complexity"
    [] c = RC_Timeline -> "timeline_first_contract"
    [] c = RC_Barriers -> "biggest_barriers"
    [] c = RC_Change -> "suggested_change"
    [] c = RC_Factors -> "challenging_factors"
    [] c = RC_Resources -> "needed_resources"
    [] c = RC_Stage -> "stage_needing_simplification"
    [] OTHER -> c

\* the vocabulary of hurdle phrases of split_multi_entry_columns
common_hurdles ==
  <<H_Cybersecurity, H_FindingContact, H_Navigating, H_SAM, H_Certification,
    H_TimeRequired, H_Terminology, H_WhereToBegin, H_DUNS>>

\* the vocabulary of hurdle phrases of create_sample_data
sample_common_hurdles ==
  <<H_Cybersecurity, H_FindingContact, H_Navigating, H_SAM, H_WhereToBegin>>

\* 'hurdle_' + hurdle.lower().replace(" ", "_").replace("/", "_").replace(".", "_"),
\* the label each phrase of the vocabulary gets
hurdle_col_name(h) ==
  CASE h = H_Cybersecurity -> "hurdle_cybersecurity_requirements"
    [] h = H_FindingContact -> "hurdle_finding_the_right_points_of_contact"
    [] h = H_Navigating -> "hurdle_navigating_multiple_systems_websites"
    [] h = H_SAM -> "hurdle_sam_gov_registration_complexity"
    [] h = H_Certification -> "hurdle_small_business_certification_processes"
    [] h = H_TimeRequired -> "hurdle_time_required_to_complete_registrations"
    [] h = H_Terminology -> "hurdle_understanding_specialized_terminology"
    [] h = H_WhereToBegin -> "hurdle_understanding_where_how_to_begin"
    [] h = H_DUNS -> "hurdle_duns_uei_number_acquisition"

seq_range(s) == {s[i] : i \in 1..Len(s)}

\* clean_column_name of standardize_column_names, on the text of a label:
\* lower(), re.sub of '?' by nothing, of [\s/()] by '_', of '_+' by '_', and
\* of a last '_' by nothing
RECURSIVE collapse_underscores(_)
collapse_underscores(s) ==
  IF Len(s) < 2 THEN s
  ELSE IF s[1] = "_" /\ s[2] = "_" THEN collapse_underscores(Tail(s))
  ELSE <<s[1]>> \o collapse_underscores(Tail(s))

clean_column_name(col) ==
  LET lowered == lower(col)
      no_marks == SelectSeq(lowered, LAMBDA c : c # "?")
      underscored == [i \in 1..Len(no_marks) |->
                        IF no_marks[i] \in Whitespace \cup {"/", "(", ")"}
                          THEN "_" ELSE no_marks[i]]
      collapsed == collapse_underscores(underscored)
  IN  IF collapsed # <<>> /\ collapsed[Len(collapsed)] = "_"
        THEN SubSeq(collapsed, 1, Len(collapsed) - 1)
        ELSE collapsed

(***************************************************************************)
(* Step 1 of clean_data: standardize_column_names.  rename(columns=...)    *)
(* relabels the mapped headers and leaves the others; two headers that get *)
(* the same label ("ID" and "id") leave the label on two columns.          *)
(***************************************************************************)
standardize_column_names(df) ==
  LET new == {column_mapping(c) : c \in df.cols}
      src(n) == CHOOSE c \in df.cols : column_mapping(c) = n
  IN  [cols |-> new,
       dups |-> {n \in new :
                   \E c1, c2 \in df.cols :
                      c1 # c2 /\ column_mapping(c1) = n /\ column_mapping(c2) = n},
       rows |-> [i \in 1..Len(df.rows) |-> [n \in new |-> df.rows[i][src(n)]]]]

(***************************************************************************)
(* Step 2: convert_data_types.  pd.to_numeric(errors='coerce') on the text *)
(* of a field: digits parse to the number, anything else (a missing field  *)
(* included) becomes NaN.  On a doubled label the selection is a frame,    *)
(* to_numeric raises, and the step's except leaves the table as it was.    *)
(***************************************************************************)
to_numeric(x) ==
  IF x # NA /\ x # <<>> /\ \A i \in 1..Len(x) : is_digit(x[i])
    THEN Num(int_value(x))
    ELSE NaN

convert_data_types(df) ==
  IF "onboarding_complexity" \in df.cols /\ "onboarding_complexity" \notin df.dups
    THEN with_column(df, "onboarding_complexity",
                     LAMBDA r : to_numeric(r["onboarding_complexity"]))
    ELSE df

(***************************************************************************)
(* Step 3: handle_missing_values.  The columns of numbers are not of       *)
(* object dtype; a column of text read from the file is, unless every      *)
(* field of it is missing (read_csv makes that a float column of NaN).     *)
(* self.data[col].dtype raises AttributeError on a doubled label, and this *)
(* step has no except of its own.                                          *)
(***************************************************************************)
NumericColumns ==
  {"id", RC_ID, "onboarding_complexity"} \cup {hurdle_col_name(h) : h \in seq_range(common_hurdles)}

is_object_dtype(df, c) ==
  /\ c \notin NumericColumns
  /\ \E i \in 1..Len(df.rows) : df.rows[i][c] # NA

fillna(x, value) == IF x = NA THEN value ELSE x

handle_missing_values_raises(df) == df.dups # {}

handle_missing_values(df) ==
  [df EXCEPT
     !.rows = [i \in 1..Len(df.rows) |->
                 [c \in df.cols |->
                    IF is_object_dtype(df, c)
                      THEN fillna(df.rows[i][c], NotProvided)
                      ELSE df.rows[i][c]]]]

(***************************************************************************)
(* Step 4: split_multi_entry_columns.                                      *)
(***************************************************************************)
multi_entry_columns ==
  <<"significant_hurdles", "biggest_barriers", "challenging_factors", "needed_resources">>

list_col_name(c) ==
  CASE c = "significant_hurdles" -> "significant_hurdles_list"
    [] c = "biggest_barriers" -> "biggest_barriers_list"
    [] c = "challenging_factors" -> "challenging_factors_list"
    [] c = "needed_resources" -> "needed_resources_list"

\* lambda x: str(x).split(',') if pd.notna(x) else []: the items are not stripped
split_entries_unstripped(x) ==
  IF x # NA
    THEN split(x, ",")
    ELSE <<>>

\* lambda x: [item.strip() for item in str(x).split(',')] if pd.notna(x) else []
split_entries(x) ==
  IF x # NA
    THEN LET parts == split(x, ",")
         IN  [i \in 1..Len(parts) |-> strip(parts[i])]
    ELSE <<>>

\* lambda x: 1 if isinstance(x, str) and hurdle.lower() in x.lower() else 0
hurdle_indicator_any_case(hurdle, x) ==
  IF x # NA /\ contains(lower(hurdle), lower(x)) THEN 1 ELSE 0

\* lambda x: 1 if isinstance(x, str) and hurdle == x else 0
hurdle_indicator_whole_text(hurdle, x) == IF x # NA /\ x = hurdle THEN 1 ELSE 0

\* lambda x: 1 if isinstance(x, str) and hurdle in x else 0
hurdle_indicator(hurdle, x) == IF x # NA /\ contains(hurdle, x) THEN 1 ELSE 0

RECURSIVE add_hurdle_indicators(_, _)
add_hurdle_indicators(df, hurdles) ==
  IF hurdles = <<>> THEN df
  ELSE add_hurdle_indicators(
         with_column(df, hurdle_col_name(Head(hurdles)),
                     LAMBDA r : hurdle_indicator(Head(hurdles), r["significant_hurdles"])),
         Tail(hurdles))

RECURSIVE split_columns(_, _)
split_columns(df, columns) ==
  IF columns = <<>> THEN df
  ELSE LET col == Head(columns)
           listed == with_column(df, list_col_name(col), LAMBDA r : split_entries(r[col]))
       IN  IF col \notin df.cols
             THEN split_columns(df, Tail(columns))
             ELSE IF col = "significant_hurdles"
               THEN split_columns(add_hurdle_indicators(listed, common_hurdles), Tail(columns))
               ELSE split_columns(listed, Tail(columns))

split_multi_entry_columns(df) == split_columns(df, multi_entry_columns)

(***************************************************************************)
(* Step 5: standardize_text_entries.                                       *)
(***************************************************************************)
\* str(x): the text itself, and 'nan' for a missing value
str(x) == IF x = NA THEN nan ELSE x

affiliation_mapping(val) ==
  CASE val = AffSmallBusiness -> SmallBusiness
    [] val = AffLargeContractor -> LargeContractor
    [] val = AffGovernment -> Government
    [] val = AffConsultant -> Consultant
    [] val = AffAcademic -> Academic
    [] val = AffOther -> Other

in_affiliation_mapping(val) ==
  val \in {AffSmallBusiness, AffLargeContractor, AffGovernment,
           AffConsultant, AffAcademic, AffOther}

\* map_affiliation without its dictionary: the substring checks only
map_affiliation_without_mapping(x) ==
  LET val == strip(str(x))
      val_lower == lower(val)
  IN  IF contains(sub_small_business, val_lower) THEN SmallBusiness
      ELSE IF contains(sub_large, val_lower) /\ contains(sub_contractor, val_lower)
        THEN LargeContractor
      ELSE IF contains(sub_government, val_lower) THEN Government
      ELSE IF contains(sub_consultant, val_lower) \/ contains(sub_advisor, val_lower)
        THEN Consultant
      ELSE IF contains(sub_academic, val_lower) \/ contains(sub_research, val_lower)
        THEN Academic
      ELSE Other

map_affiliation(x) ==
  LET val == strip(str(x))
      val_lower == lower(val)
  IN  IF in_affiliation_mapping(val) THEN affiliation_mapping(val)
      ELSE IF contains(sub_small_business, val_lower) THEN SmallBusiness
      ELSE IF contains(sub_large, val_lower) /\ contains(sub_contractor, val_lower)
        THEN LargeContractor
      ELSE IF contains(sub_government, val_lower) THEN Government
      ELSE IF contains(sub_consultant, val_lower) \/ contains(sub_advisor, val_lower)
        THEN Consultant
      ELSE IF contains(sub_academic, val_lower) \/ contains(sub_research, val_lower)
        THEN Academic
      ELSE Other

timeline_categories ==
  <<T_6_12_months, T_1_2_years, T_2_3_years, T_More_than_3_years, T_Unsure>>

\* pd.Categorical(values, categories=...): a value outside the categories is NaN
categorical(x, categories) == IF in_list(x, categories) THEN x ELSE NA

standardize_text_entries(df) ==
  IF "affiliation" \in df.cols
    THEN LET mapped == with_column(df, "affiliation_category",
                                   LAMBDA r : map_affiliation(r["affiliation"]))
         IN  IF "timeline_first_contract" \in df.cols
               THEN with_column(mapped, "timeline_category",
                      LAMBDA r : categorical(r["timeline_first_contract"], timeline_categories))
               ELSE mapped
    ELSE df

(***************************************************************************)
(* Step 6: remove_duplicates.                                              *)
(***************************************************************************)
ListColumns ==
  {"significant_hurdles_list", "biggest_barriers_list",
   "challenging_factors_list", "needed_resources_list"}

id_col(df) ==
  IF "id" \in df.cols THEN "id" ELSE IF RC_ID \in df.cols THEN RC_ID ELSE ""

\* the columns that are not of object dtype (numbers, the categorical, a text
\* column read as all NaN), and the object columns whose first value is no list;
\* in a table without rows every object column is left out
basic_columns(df) ==
  {c \in df.cols \ {id_col(df)} :
     \/ c \in NumericColumns
     \/ c = "timeline_category"
     \/ c \notin ListColumns /\ Len(df.rows) > 0}

same_on(r1, r2, columns) == \A c \in columns : r1[c] = r2[c]

\* drop_duplicates(subset=['affiliation']): one row is kept per affiliation
RECURSIVE drop_duplicates_on_affiliation(_, _)
drop_duplicates_on_affiliation(rows, subset) ==
  IF rows = <<>> THEN <<>>
  ELSE LET init == SubSeq(rows, 1, Len(rows) - 1)
           last == rows[Len(rows)]
       IN  IF \E i \in 1..Len(init) : init[i]["affiliation"] = last["affiliation"]
             THEN drop_duplicates_on_affiliation(init, subset)
             ELSE Append(drop_duplicates_on_affiliation(init, subset), last)

\* drop_duplicates(subset=..., keep='last'): of equal rows the last is kept
RECURSIVE drop_duplicates_keep_last(_, _)
drop_duplicates_keep_last(rows, subset) ==
  IF rows = <<>> THEN <<>>
  ELSE IF \E i \in 2..Len(rows) : same_on(rows[i], Head(rows), subset)
    THEN drop_duplicates_keep_last(Tail(rows), subset)
    ELSE <<Head(rows)>> \o drop_duplicates_keep_last(Tail(rows), subset)

\* drop_duplicates(subset=...): of equal rows the first is kept
RECURSIVE drop_duplicates(_, _)
drop_duplicates(rows, subset) ==
  IF rows = <<>> THEN <<>>
  ELSE LET init == SubSeq(rows, 1, Len(rows) - 1)
           last == rows[Len(rows)]
       IN  IF \E i \in 1..Len(init) : same_on(init[i], last, subset)
             THEN drop_duplicates(init, subset)
             ELSE Append(drop_duplicates(init, subset), last)

remove_duplicates(df) ==
  IF id_col(df) # "" /\ basic_columns(df) # {}
    THEN [df EXCEPT !.rows = drop_duplicates(df.rows, basic_columns(df))]
    ELSE df

(***************************************************************************)
(* Step 7: create_derived_features.                                        *)
(***************************************************************************)
complexity_bins == <<0, 1, 2, 3, 4, 5>>
complexity_labels == <<VeryLow, Low, Moderate, High, VeryHigh>>

\* pd.cut(x, bins, labels, right=False): the bins are [lo, hi)
cut_left_closed(x, bins, labels) ==
  IF ~x.nan /\ \E i \in 1..Len(labels) : bins[i] <= x.v /\ x.v < bins[i + 1]
    THEN labels[CHOOSE i \in 1..Len(labels) : bins[i] <= x.v /\ x.v < bins[i + 1]]
    ELSE NA

\* pd.cut(x, bins, labels, right=True): the label of the bin (lo, hi] that
\* holds x, and NaN for a missing x or one outside every bin
cut(x, bins, labels) ==
  IF ~x.nan /\ \E i \in 1..Len(labels) : bins[i] < x.v /\ x.v <= bins[i + 1]
    THEN labels[CHOOSE i \in 1..Len(labels) : bins[i] < x.v /\ x.v <= bins[i + 1]]
    ELSE NA

\* Categorical.astype(str): the label, and the text 'nan' for NaN (pandas
\* before 3.0, the releases the application was written for)
astype_str(x) == IF x = NA THEN nan ELSE x

complexity_category(x) ==
  fillna(astype_str(cut(x, complexity_bins, complexity_labels)), NotRated)

create_derived_features(df) ==
  IF "onboarding_complexity" \in df.cols
    THEN with_column(df, "complexity_category",
                     LAMBDA r : complexity_category(r["onboarding_complexity"]))
    ELSE df

(***************************************************************************)
(* Step 8: ensure_required_columns.                                        *)
(***************************************************************************)
required_columns ==
  <<"affiliation_category", "complexity_category", "biggest_barriers_list",
    "needed_resources_list", "timeline_first_contract", "onboarding_complexity",
    "significant_hurdles_list">>

\* self.data[col] = None for every missing column
default_value_none(col) ==
  CASE col = "onboarding_complexity" -> NaN
    [] OTHER -> NA

default_value(col) ==
  CASE col = "affiliation_category" -> Other
    [] col = "complexity_category" -> Moderate
    [] col \in ListColumns -> <<>>
    [] col = "onboarding_complexity" -> NaN
    [] OTHER -> NA

RECURSIVE ensure_columns(_, _)
ensure_columns(df, columns) ==
  IF columns = <<>> THEN df
  ELSE IF Head(columns) \in df.cols
    THEN ensure_columns(df, Tail(columns))
    ELSE ensure_columns(
           with_column(df, Head(columns), LAMBDA r : default_value(Head(columns))),
           Tail(columns))

\* the step creating the two category columns only
ensure_required_columns_categories_only(df) ==
  ensure_columns(df, <<"affiliation_category", "complexity_category">>)

ensure_required_columns(df) == ensure_columns(df, required_columns)

(***************************************************************************)
(* create_sample_data: the table clean_data falls back to when a step      *)
(* raises.                                                                 *)
(***************************************************************************)
sample_onboarding_complexity == <<4, 3, 5, 4, 3>>
sample_complexity_category == <<High, Moderate, VeryHigh, High, Moderate>>
sample_timeline == <<T_2_3_years, T_1_2_years, T_2_3_years, T_More_than_3_years, T_1_2_years>>
sample_suggested_change ==
  <<Chg_Simplified, Chg_Training, Chg_Portal, Chg_Mentorship, Chg_PlainLanguage>>
sample_stage ==
  <<Stage_Registration, Stage_Solicitation, Stage_Opportunities, Stage_Proposal,
    Stage_Negotiation>>

sample_columns ==
  {"id", "affiliation", "affiliation_category", "significant_hurdles",
   "significant_hurdles_list", "onboarding_complexity", "complexity_category",
   "timeline_first_contract", "biggest_barriers", "biggest_barriers_list",
   "suggested_change", "challenging_factors", "challenging_factors_list",
   "needed_resources", "needed_resources_list", "stage_needing_simplification"}

sample_row(i) ==
  [c \in sample_columns |->
     CASE c = "id" -> i
       [] c = "affiliation" -> AffSmallBusiness
       [] c = "affiliation_category" -> SmallBusiness
       [] c = "significant_hurdles" -> SampleHurdles
       [] c = "significant_hurdles_list" -> <<H_Cybersecurity, H_FindingContact>>
       [] c = "onboarding_complexity" -> Num(sample_onboarding_complexity[i])
       [] c = "complexity_category" -> sample_complexity_category[i]
       [] c = "timeline_first_contract" -> sample_timeline[i]
       [] c = "biggest_barriers" -> SampleBarriers
       [] c = "biggest_barriers_list" -> <<B_Competing, B_Compliance>>
       [] c = "suggested_change" -> sample_suggested_change[i]
       [] c = "challenging_factors" -> SampleFactors
       [] c = "challenging_factors_list" -> <<F_Competition, F_Resource>>
       [] c = "needed_resources" -> SampleResources
       [] c = "needed_resources_list" -> <<R_Portal, R_Mentorship>>
       [] c = "stage_needing_simplification" -> sample_stage[i]]

\* lambda x: 1 if hurdle in x['significant_hurdles'] else 0, per sample hurdle
RECURSIVE add_sample_indicators(_, _)
add_sample_indicators(df, hurdles) ==
  IF hurdles = <<>> THEN df
  ELSE add_sample_indicators(
         with_column(df, hurdle_col_name(Head(hurdles)),
                     LAMBDA r : IF contains(Head(hurdles), r["significant_hurdles"])
                                  THEN 1 ELSE 0),
         Tail(hurdles))

create_sample_data ==
  add_sample_indicators(
    DataFrame(sample_columns, [i \in DOMAIN sample_onboarding_complexity |-> sample_row(i)]),
    sample_common_hurdles)

(***************************************************************************)
(* load_data, last tier: the synthetic dataset used when no parse of the   *)
(* file succeeds.  Fields are kept as the text a file would hold.          *)
(***************************************************************************)
synthetic_complexity == <<<<"4">>, <<"3">>, <<"5">>>>
synthetic_timeline == <<T_2_3_years, T_1_2_years, T_2_3_years>>
synthetic_change == <<Chg_Simplified, Chg_Portal, Chg_Mentorship>>
synthetic_stage == <<Stage_Registration, Stage_Solicitation, Stage_Opportunities>>

RawColumns ==
  {RC_ID, RC_Affiliation, RC_Hurdles, RC_Complexity, RC_Timeline, RC_Barriers,
   RC_Change, RC_Factors, RC_Resources, RC_Stage}

synthetic_row(i) ==
  [c \in RawColumns |->
     CASE c = RC_ID -> i
       [] c = RC_Affiliation -> AffSmallBusiness
       [] c = RC_Hurdles -> SampleHurdles
       [] c = RC_Complexity -> synthetic_complexity[i]
       [] c = RC_Timeline -> synthetic_timeline[i]
       [] c = RC_Barriers -> SampleBarriers
       [] c = RC_Change -> synthetic_change[i]
       [] c = RC_Factors -> SampleFactors
       [] c = RC_Resources -> SampleResources
       [] c = RC_Stage -> synthetic_stage[i]]

synthetic_dataset ==
  DataFrame(RawColumns, [i \in DOMAIN synthetic_complexity |-> synthetic_row(i)])

(***************************************************************************)
(* filter_data.  A selection is [kind, items]: kind "None" for an absent   *)
(* argument, "list" for a list and "tuple" for a sequence that is no list. *)
(***************************************************************************)
filter_required_columns ==
  <<"affiliation_category", "complexity_category", "timeline_first_contract">>

\* the test without its 'All' not in sel
constrains_without_all(sel) ==
  /\ sel.kind # "None" /\ sel.items # <<>>
  /\ sel.kind = "list"

\* sel and isinstance(sel, list) and 'All' not in sel
constrains(sel) ==
  /\ sel.kind # "None" /\ sel.items # <<>>
  /\ sel.kind = "list"
  /\ ~in_list(All, sel.items)

\* df[df[col] == items[0]]: only the first selected value is compared
isin_rows_first_item(df, col, items) ==
  [df EXCEPT !.rows = SelectSeq(df.rows, LAMBDA r : r[col] = items[1])]

\* df[df[col].isin(items)].iloc[1:]: the slice loses the first row kept
isin_rows_after_first(df, col, items) ==
  LET kept == SelectSeq(df.rows, LAMBDA r : in_list(r[col], items))
  IN  [df EXCEPT !.rows = IF kept = <<>> THEN <<>> ELSE Tail(kept)]

\* df[df[col].isin(items)]
isin_rows(df, col, items) ==
  [df EXCEPT !.rows = SelectSeq(df.rows, LAMBDA r : in_list(r[col], items))]

\* filter_data without its third filter
filter_data_without_timeline(df, affiliation, complexity, timeline) ==
  IF \E i \in DOMAIN filter_required_columns : filter_required_columns[i] \notin df.cols
    THEN df
    ELSE
      LET f1 == IF constrains(affiliation)
                  THEN isin_rows(df, "affiliation_category", affiliation.items)
                  ELSE df
          f2 == IF constrains(complexity)
                  THEN isin_rows(f1, "complexity_category", complexity.items)
                  ELSE f1
      IN  f2

\* filter_data returning no row when a required column is missing
filter_data_fail_closed(df, affiliation, complexity, timeline) ==
  IF \E i \in DOMAIN filter_required_columns : filter_required_columns[i] \notin df.cols
    THEN [df EXCEPT !.rows = <<>>]
    ELSE
      LET f1 == IF constrains(affiliation)
                  THEN isin_rows(df, "affiliation_category", affiliation.items)
                  ELSE df
          f2 == IF constrains(complexity)
                  THEN isin_rows(f1, "complexity_category", complexity.items)
                  ELSE f1
          f3 == IF constrains(timeline)
                  THEN isin_rows(f2, "timeline_first_contract", timeline.items)
                  ELSE f2
      IN  f3

filter_data(df, affiliation, complexity, timeline) ==
  IF \E i \in DOMAIN filter_required_columns : filter_required_columns[i] \notin df.cols
    THEN df
    ELSE
      LET f1 == IF constrains(affiliation)
                  THEN isin_rows(df, "affiliation_category", affiliation.items)
                  ELSE df
          f2 == IF constrains(complexity)
                  THEN isin_rows(f1, "complexity_category", complexity.items)
                  ELSE f1
          f3 == IF constrains(timeline)
                  THEN isin_rows(f2, "timeline_first_contract", timeline.items)
                  ELSE f2
      IN  f3

(***************************************************************************)
(* create_barriers_chart: the ranked frequency table of the barriers.      *)
(***************************************************************************)
TopBarriers == 10

\* all_barriers: the rows' lists, one after the other
RECURSIVE flatten(_, _)
flatten(rows, col) ==
  IF rows = <<>> THEN <<>>
  ELSE Head(rows)[col] \o flatten(Tail(rows), col)

\* Counter(items).items(): each distinct item with its count, in the order of
\* first occurrence
RECURSIVE counter_items(_)
counter_items(items) ==
  IF items = <<>> THEN <<>>
  ELSE LET init == SubSeq(items, 1, Len(items) - 1)
           last == items[Len(items)]
           counted == counter_items(init)
       IN  IF \E i \in 1..Len(counted) : counted[i].key = last
             THEN [i \in 1..Len(counted) |->
                     IF counted[i].key = last
                       THEN [counted[i] EXCEPT !.count = @ + 1]
                       ELSE counted[i]]
             ELSE Append(counted, [key |-> last, count |-> 1])

\* sorted(pairs, key=count): without reverse=True, smaller counts first
RECURSIVE sorted_ascending(_)
sorted_ascending(pairs) ==
  IF pairs = <<>> THEN <<>>
  ELSE LET init == sorted_ascending(SubSeq(pairs, 1, Len(pairs) - 1))
           last == pairs[Len(pairs)]
           ahead == Cardinality({i \in 1..Len(init) : init[i].count <= last.count})
       IN  SubSeq(init, 1, ahead) \o <<last>> \o SubSeq(init, ahead + 1, Len(init))

\* sorted(pairs, key=count, reverse=True): stable, larger counts first
RECURSIVE sorted_by_count(_)
sorted_by_count(pairs) ==
  IF pairs = <<>> THEN <<>>
  ELSE LET init == sorted_by_count(SubSeq(pairs, 1, Len(pairs) - 1))
           last == pairs[Len(pairs)]
           ahead == Cardinality({i \in 1..Len(init) : init[i].count >= last.count})
       IN  SubSeq(init, 1, ahead) \o <<last>> \o SubSeq(init, ahead + 1, Len(init))

head_n(s, n) == SubSeq(s, 1, IF Len(s) < n THEN Len(s) ELSE n)

create_barriers_chart(df) ==
  LET all_barriers == IF "biggest_barriers_list" \in df.cols
                        THEN flatten(df.rows, "biggest_barriers_list")
                        ELSE <<>>
      top_barriers == head_n(sorted_by_count(counter_items(all_barriers)), TopBarriers)
  IN  [title |-> "Top 10 Barriers for Small Businesses", bars |-> top_barriers]

(***************************************************************************)
(* create_needed_resources_chart shows every resource;                     *)
(* create_challenging_factors_chart sorts its table by count once more and *)
(* shows the first ten factors.                                            *)
(***************************************************************************)
TopFactors == 10

create_needed_resources_chart(df) ==
  LET all_resources == IF "needed_resources_list" \in df.cols
                         THEN flatten(df.rows, "needed_resources_list")
                         ELSE <<>>
      top_resources == sorted_by_count(counter_items(all_resources))
  IN  [title |-> "Most Needed Resources for Small Businesses", bars |-> top_resources]

\* sum(factors.values())
RECURSIVE sum_values(_)
sum_values(pairs) ==
  IF pairs = <<>> THEN 0 ELSE Head(pairs).count + sum_values(Tail(pairs))

\* v / total_responses * 100, as the fraction num / den
percentage(v, total_responses) == [num |-> v * 100, den |-> total_responses]

\* the builder with the percentages taken after head(10), of the rows shown
create_challenging_factors_chart_of_shown(df) ==
  LET all_factors == IF "challenging_factors_list" \in df.cols
                       THEN flatten(df.rows, "challenging_factors_list")
                       ELSE <<>>
      factors == head_n(sorted_by_count(counter_items(all_factors)), TopFactors)
      total_responses == sum_values(factors)
  IN  [title |-> "<b>Top 10 Most Challenging Factors for Small Businesses</b>",
       bars |-> [i \in 1..Len(factors) |->
                   [key |-> factors[i].key, count |-> factors[i].count,
                    percentage |-> percentage(factors[i].count, total_responses)]]]

create_challenging_factors_chart(df) ==
  LET all_factors == IF "challenging_factors_list" \in df.cols
                       THEN flatten(df.rows, "challenging_factors_list")
                       ELSE <<>>
      factors == sorted_by_count(counter_items(all_factors))
      total_responses == sum_values(factors)
      table == [i \in 1..Len(factors) |->
                  [key |-> factors[i].key, count |-> factors[i].count,
                   percentage |-> percentage(factors[i].count, total_responses)]]
  IN  [title |-> "<b>Top 10 Most Challenging Factors for Small Businesses</b>",
       bars |-> head_n(sorted_by_count(table), TopFactors)]

(***************************************************************************)
(* create_hurdles_chart, create_complexity_by_affiliation_chart and        *)
(* create_correlation_heatmap.  px.bar of a table without rows gives a     *)
(* figure without traces under the builder's title.  A builder's else and  *)
(* except branches return go.Figure() with a title only.                   *)
(***************************************************************************)
upper_char(c) ==
  IF \E i \in DOMAIN LowerCase : LowerCase[i] = c
    THEN UpperCase[CHOOSE i \in DOMAIN LowerCase : LowerCase[i] = c]
    ELSE c

is_letter(c) ==
  \/ \E i \in DOMAIN LowerCase : LowerCase[i] = c
  \/ \E i \in DOMAIN UpperCase : UpperCase[i] = c

\* str.title(): a letter after a non-letter in upper case, the others in lower
title_case(s) ==
  [i \in 1..Len(s) |->
     IF i = 1 \/ ~is_letter(s[i - 1]) THEN upper_char(s[i]) ELSE lower_char(s[i])]

\* col.replace('hurdle_', '').replace('_', ' ').title(), for the label of a
\* phrase: the phrase with its blanks, slashes and dots as blanks, in title case
hurdle_name(h) ==
  title_case([i \in 1..Len(h) |-> IF h[i] \in {" ", "/", "."} THEN " " ELSE h[i]])

\* [col for col in filtered_data.columns if col.startswith('hurdle_')], as
\* the phrases of these columns in the order the columns were created
hurdle_columns(df) ==
  SelectSeq(common_hurdles, LAMBDA h : hurdle_col_name(h) \in df.cols)

RECURSIVE sum_seq(_)
sum_seq(s) == IF s = <<>> THEN 0 ELSE Head(s) + sum_seq(Tail(s))

\* df[c].sum()
column_sum(df, c) == sum_seq([i \in 1..Len(df.rows) |-> df.rows[i][c]])

create_hurdles_chart(df) ==
  LET hurdles == hurdle_columns(df)
      hurdle_counts ==
        sorted_by_count([i \in 1..Len(hurdles) |->
                           [key |-> hurdle_name(hurdles[i]),
                            count |-> column_sum(df, hurdle_col_name(hurdles[i]))]])
  IN  [title |-> "Most Significant Onboarding Hurdles", bars |-> hurdle_counts]

\* the order groupby gives the categories: sorted
sorted_categories ==
  <<Academic, Consultant, Government, LargeContractor, Other, SmallBusiness>>

\* groupby('affiliation_category')['onboarding_complexity'].mean(): per
\* category of the table the mean of the ratings that are not NaN, as the
\* fraction sum / n (NaN when n is 0)
complexity_by_affiliation(df) ==
  LET present == SelectSeq(sorted_categories,
                           LAMBDA a : \E i \in 1..Len(df.rows) :
                                        df.rows[i]["affiliation_category"] = a)
      rated(a) == SelectSeq(df.rows,
                            LAMBDA r : r["affiliation_category"] = a
                                         /\ ~r["onboarding_complexity"].nan)
  IN  [k \in 1..Len(present) |->
         [key |-> present[k],
          mean |-> [sum |-> sum_seq([i \in 1..Len(rated(present[k])) |->
                                      rated(present[k])[i]["onboarding_complexity"].v]),
                    n |-> Len(rated(present[k]))]]]

create_complexity_by_affiliation_chart(df) ==
  IF "affiliation_category" \in df.cols /\ "onboarding_complexity" \in df.cols
    THEN [title |-> "Onboarding Complexity by Respondent Type",
          bars |-> complexity_by_affiliation(df)]
    ELSE [title |-> "No complexity data available", bars |-> <<>>]

\* abs(val) > 0.3 for val the Pearson correlation of the two columns over
\* the rows with a rating: with n rows, c = n*Sxy - Sx*Sy, vx = n*Sxx - Sx*Sx
\* and vy = n*Syy - Sy*Sy, val is c / sqrt(vx * vy), and NaN (for which the
\* comparison is False) when n < 2 or a column is constant
correlation_above_0_3(df, c) ==
  LET rated == SelectSeq(df.rows, LAMBDA r : ~r["onboarding_complexity"].nan)
      n == Len(rated)
      x == [i \in 1..n |-> rated[i][c]]
      y == [i \in 1..n |-> rated[i]["onboarding_complexity"].v]
      cov == n * sum_seq([i \in 1..n |-> x[i] * y[i]]) - sum_seq(x) * sum_seq(y)
      vx == n * sum_seq([i \in 1..n |-> x[i] * x[i]]) - sum_seq(x) * sum_seq(x)
      vy == n * sum_seq([i \in 1..n |-> y[i] * y[i]]) - sum_seq(y) * sum_seq(y)
  IN  n >= 2 /\ vx > 0 /\ vy > 0 /\ 100 * cov * cov > 9 * vx * vy

\* round(random.uniform(0.001, 0.05), 3) and round(random.uniform(0.05, 0.2), 3),
\* in thousandths: some of the values the draws can give
StrongPValues == {1, 10, 50}
WeakPValues == {50, 200}

\* the cells of the heatmap, one per hurdle column in the order of the
\* columns (the sorted order when there is one), each with the p-value drawn
\* for it and the significance text of its hover
heatmap_cells(df, p_values) ==
  LET hurdles == hurdle_columns(df)
  IN  [i \in 1..Len(hurdles) |->
         [key |-> hurdle_name(hurdles[i]),
          p_value |-> p_values[i],
          sig_text |-> IF p_values[i] < 10 THEN "Highly significant"
                       ELSE IF p_values[i] < 50 THEN "Statistically significant"
                       ELSE "Not statistically significant"]]

\* the p-values random.uniform can give for the table; none is drawn
\* without hurdle columns or without the rating
p_value_draws(df) ==
  LET hurdles == hurdle_columns(df)
  IN  IF "onboarding_complexity" \notin df.cols THEN {<<>>}
      ELSE {p \in [1..Len(hurdles) -> StrongPValues \cup WeakPValues] :
              \A i \in 1..Len(hurdles) :
                p[i] \in IF correlation_above_0_3(df, hurdle_col_name(hurdles[i]))
                           THEN StrongPValues ELSE WeakPValues}

create_correlation_heatmap(df, p_values) ==
  IF hurdle_columns(df) # <<>> /\ "onboarding_complexity" \in df.cols
    THEN [title |-> "<b>Correlation Between Hurdles and Complexity Rating</b>",
          bars |-> heatmap_cells(df, p_values)]
    ELSE [title |-> "No correlation data available", bars |-> <<>>]

NoChart == [title |-> "", bars |-> <<>>]

(***************************************************************************)
(* The inputs: what data/survey_data.csv holds.  A file that parses gives  *)
(* a table of up to MaxRows answers under one of four headers; each answer *)
(* is one of five kinds of respondent.                                     *)
(***************************************************************************)
Kinds ==
  <<[aff |-> AffSmallBusiness, hur |-> SampleHurdles, cx |-> <<"4">>,
     tl |-> T_2_3_years, bar |-> SampleBarriers, res |-> SampleResources],
    [aff |-> AffConsultant, hur |-> H_SAM \o <<",">>, cx |-> <<"0">>,
     tl |-> T_1_2_years, bar |-> <<",", " ">> \o B_Compliance,
     res |-> R_Mentorship \o <<",", ",">> \o R_Portal],
    [aff |-> NA, hur |-> NA, cx |-> NA, tl |-> NA, bar |-> NA, res |-> NA],
    [aff |-> <<"U","S"," ","G","o","v","e","r","n","m","e","n","t">>,
     hur |-> lower(H_Cybersecurity), cx |-> <<"5">>, tl |-> T_Unsure,
     bar |-> B_Compliance \o <<" ", ",", " ">> \o B_Competing, res |-> NA],
    [aff |-> AffOther, hur |-> NA, cx |-> <<"x">>, tl |-> T_More_than_3_years,
     bar |-> NA, res |-> R_Portal]>>

HeaderSurvey ==
  {RC_ID, RC_Affiliation, RC_Hurdles, RC_Complexity, RC_Timeline, RC_Barriers, RC_Resources}
HeaderThree == {RC_ID, RC_Affiliation, RC_Complexity}
HeaderNoCategories == {RC_Hurdles, RC_Barriers}
HeaderDoubleId == {RC_ID, "id", RC_Affiliation, RC_Complexity, RC_Timeline}
Headers == {HeaderSurvey, HeaderThree, HeaderNoCategories, HeaderDoubleId}

raw_row(k, i, header) ==
  [c \in header |->
     CASE c = RC_ID -> i
       [] c = "id" -> i
       [] c = RC_Affiliation -> k.aff
       [] c = RC_Hurdles -> k.hur
       [] c = RC_Complexity -> k.cx
       [] c = RC_Timeline -> k.tl
       [] c = RC_Barriers -> k.bar
       [] c = RC_Resources -> k.res]

KindSeqs == UNION {[1..n -> DOMAIN Kinds] : n \in 0..MaxRows}

\* what a successful parse of the file returns
read_csv(f) ==
  DataFrame(f.header, [i \in DOMAIN f.answers |-> raw_row(Kinds[f.answers[i]], i, f.header)])

(***************************************************************************)
(* The files pd.read_csv does not read as a table, given by their lines    *)
(* (f.readlines()): no file or an empty one (no line), a text of line ends *)
(* only, and a header line whose last label opens a quote that is never    *)
(* closed.                                                                 *)
(***************************************************************************)
MaxBlankLines == 2

blank_line == <<"\n">>

\* the line 'ID,Affiliation,"Onboarding Complexity' and its line end
open_quote_line ==
  <<"I","D",",","A","f","f","i","l","i","a","t","i","o","n",",","\"","O","n","b","o","a","r","d","i","n","g"," ","C","o","m","p","l","e","x","i","t","y","\n">>

TextFile(lines) == [readable |-> FALSE, header |-> {}, answers |-> <<>>, lines |-> lines]

NoFile == TextFile(<<>>)

BlankFiles == {TextFile([i \in 1..n |-> blank_line]) : n \in 1..MaxBlankLines}

OpenQuoteFile == TextFile(<<open_quote_line>>)

Files ==
  {[readable |-> TRUE, header |-> h, answers |-> ks, lines |-> <<>>] :
     h \in Headers, ks \in KindSeqs}
    \cup {NoFile, OpenQuoteFile} \cup BlankFiles

(***************************************************************************)
(* load_data: the parse tiers.                                             *)
(***************************************************************************)
\* the text has no line, or blank lines only: read_csv finds no columns
\* (FileNotFoundError, EmptyDataError)
no_columns(f) == ~f.readable /\ \A i \in 1..Len(f.lines) : f.lines[i] = blank_line

\* the number of double quotes of a text
RECURSIVE count_quotes(_)
count_quotes(s) ==
  IF s = <<>> THEN 0
  ELSE (IF Head(s) = "\"" THEN 1 ELSE 0) + count_quotes(Tail(s))

\* the text ends inside a quoted field
ends_in_quotes(f) ==
  ~f.readable /\ f.lines # <<>> /\ count_quotes(join(<<>>, f.lines)) % 2 = 1

\* tier 1: pd.read_csv with the C parser raises when it finds no columns
\* and when the text ends inside a quoted field (ParserError)
strict_parse_raises(f) == no_columns(f) \/ ends_in_quotes(f)

\* tier 2: pd.read_csv(engine='python') raises when it finds no columns; a
\* field whose quote is left open it reads to the end of the text
permissive_parse_raises(f) == no_columns(f)

\* tier 3, for char in line: a double quote toggles in_quotes, a comma
\* outside quotes ends the value, any other character is appended to it
RECURSIVE scan(_, _, _, _)
scan(line, values, current_value, in_quotes) ==
  IF line = <<>> THEN Append(values, current_value)
  ELSE IF Head(line) = "\"" THEN scan(Tail(line), values, current_value, ~in_quotes)
  ELSE IF Head(line) = "," /\ ~in_quotes
    THEN scan(Tail(line), Append(values, current_value), <<>>, in_quotes)
  ELSE scan(Tail(line), values, Append(current_value, Head(line)), in_quotes)

\* values = line.split(','): no in_quotes toggle
parse_values_every_comma(line) == split(line, ",")

parse_values(line) == scan(line, <<>>, <<>>, FALSE)

\* open(file_path) raises, or lines[0] raises IndexError
manual_parse_raises(lines) == lines = <<>>

\* header = lines[0].strip().split(','); the lines after it whose values are
\* as many as the header's
manual_parse(lines) ==
  LET header == split(strip(lines[1]), ",")
      body == Tail(lines)
      values == [i \in 1..Len(body) |-> parse_values(body[i])]
  IN  [header |-> header,
       data |-> SelectSeq(values, LAMBDA v : Len(v) = Len(header))]

NoParse == [header |-> <<>>, data |-> <<>>]

\* the column label a header text is
label(text) ==
  CASE text = <<>> -> ""
    [] text = <<"I","D">> -> RC_ID
    [] text = <<"A","f","f","i","l","i","a","t","i","o","n">> -> RC_Affiliation
    [] text = <<"O","n","b","o","a","r","d","i","n","g"," ","C","o","m","p","l","e","x","i","t","y","\n">> -> "Onboarding Complexity\n"

\* pd.DataFrame(data, columns=header)
frame(parse) ==
  LET labels == [j \in 1..Len(parse.header) |-> label(parse.header[j])]
      cols == {labels[j] : j \in 1..Len(labels)}
  IN  [cols |-> cols,
       dups |-> {c \in cols : \E j, k \in 1..Len(labels) :
                                j # k /\ labels[j] = c /\ labels[k] = c},
       rows |-> [i \in 1..Len(parse.data) |->
                   [c \in cols |->
                      parse.data[i][CHOOSE j \in 1..Len(labels) : labels[j] = c]]]]

\* tier 2 on a text of one line: the fields of the line are the labels of a
\* table without rows
permissive_parse(f) ==
  IF f.readable THEN read_csv(f)
  ELSE frame([header |-> parse_values(f.lines[1]), data |-> <<>>])

\* the selections a caller passes to filter_data
NoSelection == [kind |-> "None", items |-> <<>>]
List(items) == [kind |-> "list", items |-> items]
Tuple(items) == [kind |-> "tuple", items |-> items]

AffiliationSelections ==
  {List(<<All>>), List(<<SmallBusiness>>), Tuple(<<Other>>)}
ComplexitySelections ==
  {List(<<>>), List(<<All, High>>), List(<<High, nan>>)}
TimelineSelections ==
  {NoSelection, List(<<T_2_3_years>>)}

(***************************************************************************)
(* The state machine.  pc is the position of the construction: load_data,  *)
(* the eight steps of clean_data in their order, then "main", where main   *)
(* decides on its warning, then "ready", where main filters the table and  *)
(* builds charts from the filtered table.                                  *)
(***************************************************************************)
Init ==
  /\ file \in Files
  /\ pc = "load_data"
  /\ raw_data = None
  /\ data = None
  /\ selection = <<NoSelection, NoSelection, NoSelection>>
  /\ filtered_data = None
  /\ chart = NoChart
  /\ entries = <<>>
  /\ entry_list = <<>>
  /\ parsed = NoParse
  /\ warning = FALSE

\* a tier that does not raise assigns self.raw_data; load_data goes on to
\* clean_data, which copies it into self.data
Loaded(here, table) ==
  /\ pc = here
  /\ raw_data' = table
  /\ data' = table
  /\ pc' = "standardize_column_names"
  /\ UNCHANGED <<file, selection, filtered_data, chart, entries, entry_list, parsed, warning>>

\* a tier that raises is caught by its except, which runs the next tier
Raised(here, next) ==
  /\ pc = here
  /\ pc' = next
  /\ UNCHANGED <<file, raw_data, data, selection, filtered_data, chart, entries,
                 entry_list, parsed, warning>>

\* the tiers one after the other instead of nested: the second try runs
\* after a first that did not raise
StrictParseThenPermissive ==
  IF strict_parse_raises(file)
    THEN Raised("load_data", "permissive_parse")
    ELSE /\ pc = "load_data"
         /\ raw_data' = read_csv(file)
         /\ data' = raw_data'
         /\ pc' = "permissive_parse"
         /\ UNCHANGED <<file, selection, filtered_data, chart, entries, entry_list, parsed, warning>>

StrictParse ==
  IF strict_parse_raises(file)
    THEN Raised("load_data", "permissive_parse")
    ELSE Loaded("load_data", read_csv(file))

PermissiveParse ==
  IF permissive_parse_raises(file)
    THEN Raised("permissive_parse", "manual_parse")
    ELSE Loaded("permissive_parse", permissive_parse(file))

ManualParse ==
  IF manual_parse_raises(file.lines)
    THEN Raised("manual_parse", "synthetic_dataset")
    ELSE Loaded("manual_parse", frame(manual_parse(file.lines)))

SyntheticDataset == Loaded("synthetic_dataset", synthetic_dataset)

\* load_data up to the call of clean_data
LoadData ==
  \/ StrictParse
  \/ PermissiveParse
  \/ ManualParse
  \/ SyntheticDataset

Step(here, next, result) ==
  /\ pc = here
  /\ data' = result
  /\ pc' = next
  /\ UNCHANGED <<file, raw_data, selection, filtered_data, chart, entries, entry_list, parsed, warning>>

StandardizeColumnNames ==
  Step("standardize_column_names", "convert_data_types", standardize_column_names(data))

ConvertDataTypes ==
  Step("convert_data_types", "handle_missing_values", convert_data_types(data))

\* an exception of the step reaches clean_data's except: create_sample_data
HandleMissingValues ==
  IF handle_missing_values_raises(data)
    THEN Step("handle_missing_values", "main", create_sample_data)
    ELSE Step("handle_missing_values", "split_multi_entry_columns",
              handle_missing_values(data))

SplitMultiEntryColumns ==
  Step("split_multi_entry_columns", "standardize_text_entries",
       split_multi_entry_columns(data))

StandardizeTextEntries ==
  Step("standardize_text_entries", "remove_duplicates", standardize_text_entries(data))

RemoveDuplicates ==
  Step("remove_duplicates", "create_derived_features", remove_duplicates(data))

CreateDerivedFeatures ==
  Step("create_derived_features", "ensure_required_columns", create_derived_features(data))

EnsureRequiredColumns ==
  Step("ensure_required_columns", "main", ensure_required_columns(data))

\* main: dashboard.data.shape[0] <= 5
SampleRows == 5

\* the test without its 'id' in dashboard.data.columns
is_sample_data_without_id(df) == Len(df.rows) <= SampleRows

\* the test with < for <=
is_sample_data_below_5(df) == Len(df.rows) < SampleRows /\ "id" \in df.cols

\* main: is_sample_data = (dashboard.data.shape[0] <= 5 and 'id' in dashboard.data.columns)
is_sample_data(df) == Len(df.rows) <= SampleRows /\ "id" \in df.cols

\* main, once the dashboard is constructed: st.warning("Using sample data")
\* if is_sample_data
Main ==
  /\ pc = "main"
  /\ warning' = is_sample_data(data)
  /\ pc' = "ready"
  /\ UNCHANGED <<file, raw_data, data, selection, filtered_data, chart, entries, entry_list,
                 parsed>>

\* filter_data filtering self.data itself instead of a copy
FilterDataInPlace ==
  /\ pc = "ready"
  /\ \E a \in AffiliationSelections, c \in ComplexitySelections, t \in TimelineSelections :
       /\ selection' = <<a, c, t>>
       /\ filtered_data' = filter_data(data, a, c, t)
  /\ data' = filtered_data'
  /\ chart' = NoChart
  /\ UNCHANGED <<file, pc, raw_data, entries, entry_list, parsed, warning>>

\* main: filtered_data = dashboard.filter_data(affiliation, complexity, timeline)
FilterData ==
  /\ pc = "ready"
  /\ \E a \in AffiliationSelections, c \in ComplexitySelections, t \in TimelineSelections :
       /\ selection' = <<a, c, t>>
       /\ filtered_data' = filter_data(data, a, c, t)
  /\ chart' = NoChart
  /\ UNCHANGED <<file, pc, raw_data, data, entries, entry_list, parsed, warning>>

\* main: dashboard.create_barriers_chart(filtered_data)
CreateBarriersChart ==
  /\ pc = "ready"
  /\ filtered_data # None
  /\ chart' = create_barriers_chart(filtered_data)
  /\ UNCHANGED <<file, pc, raw_data, data, selection, filtered_data, entries, entry_list, parsed, warning>>

Next ==
  \/ LoadData
  \/ StandardizeColumnNames
  \/ ConvertDataTypes
  \/ HandleMissingValues
  \/ SplitMultiEntryColumns
  \/ StandardizeTextEntries
  \/ RemoveDuplicates
  \/ CreateDerivedFeatures
  \/ EnsureRequiredColumns
  \/ Main
  \/ FilterData
  \/ CreateBarriersChart

Spec == Init /\ [][Next]_vars

(***************************************************************************)
(* filter_data as a function of the table alone: the table is any table    *)
(* over the columns filter_data reads, some of them possibly absent.       *)
(***************************************************************************)
FilterColumns == {"affiliation_category", "complexity_category", "timeline_first_contract"}

FilterValues(c) ==
  CASE c = "affiliation_category" -> {SmallBusiness, Other}
    [] c = "complexity_category" -> {High, VeryHigh}
    [] c = "timeline_first_contract" -> {T_2_3_years, NA}

FilterRows(cols) ==
  {r \in [cols -> {SmallBusiness, Other, High, VeryHigh, T_2_3_years, NA}] :
     \A c \in cols : r[c] \in FilterValues(c)}

FilterTablesOver(cols) ==
  {DataFrame(cols, rows) : rows \in UNION {[1..n -> FilterRows(cols)] : n \in 0..MaxRows}}

FilterTables == UNION {FilterTablesOver(cols) : cols \in (SUBSET FilterColumns) \ {{}}}

InitFilter ==
  /\ file = NoFile
  /\ pc = "ready"
  /\ raw_data = None
  /\ data \in FilterTables
  /\ selection = <<NoSelection, NoSelection, NoSelection>>
  /\ filtered_data = None
  /\ chart = NoChart
  /\ entries = <<>>
  /\ entry_list = <<>>
  /\ parsed = NoParse
  /\ warning = FALSE

NextFilter ==
  \/ FilterData
  \/ CreateBarriersChart

SpecFilter == InitFilter /\ [][NextFilter]_vars

(***************************************************************************)
(* The split of one multi-value answer as a function of its text: the text *)
(* is the entries, each possibly padded with blanks, joined by commas.     *)
(***************************************************************************)
EntryAlphabet == {"a", "b", " "}

EntryTexts == UNION {[1..n -> EntryAlphabet] : n \in 0..MaxEntryLen}

EntryLists == UNION {[1..n -> EntryTexts] : n \in 1..MaxEntries}

InitSplit ==
  /\ file = NoFile
  /\ pc = "split_input"
  /\ raw_data = None
  /\ data = None
  /\ selection = <<NoSelection, NoSelection, NoSelection>>
  /\ filtered_data = None
  /\ chart = NoChart
  /\ entries \in EntryLists
  /\ entry_list = <<>>
  /\ parsed = NoParse
  /\ warning = FALSE

\* the lambda of split_multi_entry_columns applied to the text of the answer
SplitEntries ==
  /\ pc = "split_input"
  /\ entry_list' = split_entries(join(<<",">>, entries))
  /\ pc' = "split_done"
  /\ UNCHANGED <<file, raw_data, data, selection, filtered_data, chart, entries, parsed, warning>>

NextSplit == SplitEntries

SpecSplit == InitSplit /\ [][NextSplit]_vars

(***************************************************************************)
(* The manual parse as a function of the lines of the text: a header line  *)
(* and up to two lines after it, over letters, commas and double quotes.   *)
(***************************************************************************)
MaxLineLen == 3

ManualAlphabet == {"a", ",", "\""}

ManualTexts == UNION {[1..n -> ManualAlphabet] : n \in 0..MaxLineLen}

\* a line as readlines() gives it, with its line end
text_line(text) == text \o <<"\n">>

ManualHeaders == {<<"a">>, <<"a", ",", "a">>, <<"\"", "a", ",", "a", "\"">>}

ManualBodies ==
  {<<>>} \cup {<<text_line(t)>> : t \in ManualTexts}
         \cup {<<text_line(t), text_line(u)>> : t, u \in ManualTexts}

InitManual ==
  /\ file \in {TextFile(<<text_line(h)>> \o b) : h \in ManualHeaders, b \in ManualBodies}
  /\ pc = "manual_parse"
  /\ raw_data = None
  /\ data = None
  /\ selection = <<NoSelection, NoSelection, NoSelection>>
  /\ filtered_data = None
  /\ chart = NoChart
  /\ entries = <<>>
  /\ entry_list = <<>>
  /\ parsed = NoParse
  /\ warning = FALSE

\* the manual tier up to pd.DataFrame(data, columns=header)
ManualParseLines ==
  /\ pc = "manual_parse"
  /\ ~manual_parse_raises(file.lines)
  /\ parsed' = manual_parse(file.lines)
  /\ pc' = "manual_done"
  /\ UNCHANGED <<file, raw_data, data, selection, filtered_data, chart, entries, entry_list, warning>>

NextManual == ManualParseLines

SpecManual == InitManual /\ [][NextManual]_vars

(***************************************************************************)
(* The chart builders as functions of the lists they count: a table of two *)
(* answers over eleven items, one more than a top-ten chart shows; the     *)
(* first answer names every item or every item but the last, the second    *)
(* any of them.                                                            *)
(***************************************************************************)
RankItems ==
  <<<<"a">>, <<"b">>, <<"c">>, <<"d">>, <<"e">>, <<"f">>, <<"g">>, <<"h">>, <<"i">>,
    <<"j">>, <<"k">>>>

RankColumns == {"biggest_barriers_list", "challenging_factors_list", "needed_resources_list"}

RankTables ==
  {DataFrame(RankColumns,
             <<[c \in RankColumns |-> first],
               [c \in RankColumns |-> SelectSeq(RankItems, LAMBDA x : x \in named)]>>) :
     first \in {RankItems, SubSeq(RankItems, 1, Len(RankItems) - 1)},
     named \in SUBSET seq_range(RankItems)}

InitRank ==
  /\ file = NoFile
  /\ pc = "ready"
  /\ raw_data = None
  /\ data \in RankTables
  /\ selection = <<NoSelection, NoSelection, NoSelection>>
  /\ filtered_data = data
  /\ chart = NoChart
  /\ entries = <<>>
  /\ entry_list = <<>>
  /\ parsed = NoParse
  /\ warning = FALSE

\* main: dashboard.create_needed_resources_chart(filtered_data)
CreateNeededResourcesChart ==
  /\ pc = "ready"
  /\ filtered_data # None
  /\ chart' = create_needed_resources_chart(filtered_data)
  /\ UNCHANGED <<file, pc, raw_data, data, selection, filtered_data, entries, entry_list,
                 parsed, warning>>

\* main: dashboard.create_challenging_factors_chart(filtered_data)
CreateChallengingFactorsChart ==
  /\ pc = "ready"
  /\ filtered_data # None
  /\ chart' = create_challenging_factors_chart(filtered_data)
  /\ UNCHANGED <<file, pc, raw_data, data, selection, filtered_data, entries, entry_list,
                 parsed, warning>>

NextRank ==
  \/ CreateBarriersChart
  \/ CreateNeededResourcesChart
  \/ CreateChallengingFactorsChart

SpecRank == InitRank /\ [][NextRank]_vars

(***************************************************************************)
(* The column rename as a function of the header: a table of at most one   *)
(* row under any headers out of two of the export and three that are not   *)
(* keys of the dictionary, one of them a key but for its last blank.       *)
(***************************************************************************)
OtherHeaders == {"Affiliation?", "Org (Type)", "Needed resources?"}

RenameHeaders == (SUBSET ({RC_ID, RC_Affiliation} \cup OtherHeaders)) \ {{}}

\* the text of a header
header_text(c) ==
  CASE c = RC_ID -> <<"I","D">>
    [] c = RC_Affiliation -> <<"A","f","f","i","l","i","a","t","i","o","n">>
    [] c = "Affiliation?" -> <<"A","f","f","i","l","i","a","t","i","o","n","?">>
    [] c = "Org (Type)" -> <<"O","r","g"," ","(","T","y","p","e",")">>
    [] c = "Needed resources?" ->
         <<"N","e","e","d","e","d"," ","r","e","s","o","u","r","c","e","s","?">>
    [] c = "id" -> <<"i","d">>
    [] c = "affiliation" -> <<"a","f","f","i","l","i","a","t","i","o","n">>

RenameTablesUnder(h) ==
  {DataFrame(h, rows) :
     rows \in {<<>>} \cup {<<[c \in h |-> x]>> : x \in {NA, <<"x">>, <<"y">>}}}

RenameTables == UNION {RenameTablesUnder(h) : h \in RenameHeaders}

InitRename ==
  /\ file = NoFile
  /\ pc = "standardize_column_names"
  /\ raw_data \in RenameTables
  /\ data = raw_data
  /\ selection = <<NoSelection, NoSelection, NoSelection>>
  /\ filtered_data = None
  /\ chart = NoChart
  /\ entries = <<>>
  /\ entry_list = <<>>
  /\ parsed = NoParse
  /\ warning = FALSE

NextRename == StandardizeColumnNames

SpecRename == InitRename /\ [][NextRename]_vars

(***************************************************************************)
(* The affiliation mapping as a function of the affiliation text: a table  *)
(* of one row whose affiliation is one of the six answers of the survey,   *)
(* bare or padded with blanks, or up to MaxWords words in mixed case, or   *)
(* missing.                                                                *)
(***************************************************************************)
MaxWords == 2

AffiliationWords ==
  {SmallBusiness, <<"L","A","R","G","E">>, sub_contractor, Government, sub_consultant,
   <<"A","d","v","i","s","o","r">>, sub_academic,
   <<"R","e","s","e","a","r","c","h","e","r">>, <<"x">>}

AffiliationAnswers ==
  {AffSmallBusiness, AffLargeContractor, AffGovernment, AffConsultant, AffAcademic, AffOther}

AffiliationTexts ==
  {join(<<" ">>, ws) : ws \in UNION {[1..n -> AffiliationWords] : n \in 0..MaxWords}}
    \cup AffiliationAnswers
    \cup {<<" ">> \o a \o <<" ", "\n">> : a \in AffiliationAnswers}
    \cup {NA}

InitAffiliation ==
  /\ file = NoFile
  /\ pc = "standardize_text_entries"
  /\ raw_data \in {DataFrame({"affiliation"}, <<[c \in {"affiliation"} |-> t]>>) :
                     t \in AffiliationTexts}
  /\ data = raw_data
  /\ selection = <<NoSelection, NoSelection, NoSelection>>
  /\ filtered_data = None
  /\ chart = NoChart
  /\ entries = <<>>
  /\ entry_list = <<>>
  /\ parsed = NoParse
  /\ warning = FALSE

NextAffiliation == StandardizeTextEntries

SpecAffiliation == InitAffiliation /\ [][NextAffiliation]_vars

(***************************************************************************)
(* The chart builders as functions of the filtered table: any table of up  *)
(* to MaxRows rows over some of the columns the builders read.             *)
(***************************************************************************)
ChartColumns ==
  {"hurdle_cybersecurity_requirements", "biggest_barriers_list", "affiliation_category",
   "onboarding_complexity"}

ChartRows(cols) ==
  {[c \in cols |->
      CASE c = "hurdle_cybersecurity_requirements" -> hurdle
        [] c = "biggest_barriers_list" -> barriers
        [] c = "affiliation_category" -> affiliation
        [] c = "onboarding_complexity" -> complexity] :
     hurdle \in {0, 1}, barriers \in {<<>>, <<B_Compliance>>},
     affiliation \in {SmallBusiness, Other}, complexity \in {Num(2), Num(4)}}

ChartTablesOver(cols) ==
  {DataFrame(cols, rows) : rows \in UNION {[1..n -> ChartRows(cols)] : n \in 0..MaxRows}}

ChartTables == UNION {ChartTablesOver(cols) : cols \in (SUBSET ChartColumns) \ {{}}}

InitCharts ==
  /\ file = NoFile
  /\ pc = "ready"
  /\ raw_data = None
  /\ data \in ChartTables
  /\ selection = <<NoSelection, NoSelection, NoSelection>>
  /\ filtered_data = data
  /\ chart = NoChart
  /\ entries = <<>>
  /\ entry_list = <<>>
  /\ parsed = NoParse
  /\ warning = FALSE

\* main: dashboard.create_hurdles_chart(filtered_data)
CreateHurdlesChart ==
  /\ pc = "ready"
  /\ filtered_data # None
  /\ chart' = create_hurdles_chart(filtered_data)
  /\ UNCHANGED <<file, pc, raw_data, data, selection, filtered_data, entries, entry_list,
                 parsed, warning>>

\* main: dashboard.create_complexity_by_affiliation_chart(filtered_data)
CreateComplexityByAffiliationChart ==
  /\ pc = "ready"
  /\ filtered_data # None
  /\ chart' = create_complexity_by_affiliation_chart(filtered_data)
  /\ UNCHANGED <<file, pc, raw_data, data, selection, filtered_data, entries, entry_list,
                 parsed, warning>>

\* dashboard.create_correlation_heatmap(filtered_data)
CreateCorrelationHeatmap ==
  /\ pc = "ready"
  /\ filtered_data # None
  /\ \E p_values \in p_value_draws(filtered_data) :
       chart' = create_correlation_heatmap(filtered_data, p_values)
  /\ UNCHANGED <<file, pc, raw_data, data, selection, filtered_data, entries, entry_list,
                 parsed, warning>>

NextCharts ==
  \/ CreateHurdlesChart
  \/ CreateBarriersChart
  \/ CreateComplexityByAffiliationChart
  \/ CreateCorrelationHeatmap

SpecCharts == InitCharts /\ [][NextCharts]_vars

(***************************************************************************)
(* main's warning on tables of any length: the table the constructor       *)
(* leaves is the sample, the cleaned synthetic dataset, or a cleaned       *)
(* survey of up to MaxBannerRows rows, with an 'id' column or without.     *)
(***************************************************************************)
MaxBannerRows == 6

BannerCategories == {SmallBusiness, Other}

BannerTablesOver(cols) ==
  UNION {{DataFrame(cols, [i \in 1..n |-> [c \in cols |-> IF c = "id" THEN i ELSE category[i]]]) :
            category \in [1..n -> BannerCategories]} : n \in 0..MaxBannerRows}

\* clean_data without an exception: the eight steps in their order
clean_data(df) ==
  ensure_required_columns(create_derived_features(remove_duplicates(
    standardize_text_entries(split_multi_entry_columns(handle_missing_values(
      convert_data_types(standardize_column_names(df))))))))

BannerTables ==
  {create_sample_data, clean_data(synthetic_dataset)}
    \cup BannerTablesOver({"id", "affiliation_category"})
    \cup BannerTablesOver({"affiliation_category"})

InitBanner ==
  /\ file = NoFile
  /\ pc = "main"
  /\ raw_data = None
  /\ data \in BannerTables
  /\ selection = <<NoSelection, NoSelection, NoSelection>>
  /\ filtered_data = None
  /\ chart = NoChart
  /\ entries = <<>>
  /\ entry_list = <<>>
  /\ parsed = NoParse
  /\ warning = FALSE

NextBanner == Main

SpecBanner == InitBanner /\ [][NextBanner]_vars

(***************************************************************************)
(* Properties of filter_data.                                              *)
(***************************************************************************)
\* filter_data has returned: its result is held in filtered_data
Filtered == pc = "ready" /\ filtered_data # None

\* a selection that is a non-empty list without "All"
NonAllList(sel) ==
  sel.kind = "list" /\ sel.items # <<>> /\ All \notin seq_range(sel.items)

\* a selection that is absent, empty, or holds "All"
Unconstraining(sel) ==
  sel.kind = "None" \/ sel.items = <<>> \/ All \in seq_range(sel.items)

\* the row satisfies every dimension whose selection is a non-empty list without "All"
Matches(r, sel) ==
  /\ NonAllList(sel[1]) => r["affiliation_category"] \in seq_range(sel[1].items)
  /\ NonAllList(sel[2]) => r["complexity_category"] \in seq_range(sel[2].items)
  /\ NonAllList(sel[3]) => r["timeline_first_contract"] \in seq_range(sel[3].items)

\* C1: every row filter_data returns is a row of the table, and in each
\* dimension whose selection is a non-empty list without "All" the row's value
\* is a member of the selection
C1_FilterSubsetOfTable ==
  Filtered =>
    \A i \in 1..Len(filtered_data.rows) :
      /\ \E j \in 1..Len(data.rows) : data.rows[j] = filtered_data.rows[i]
      /\ Matches(filtered_data.rows[i], selection)

\* C1's case: a constrained dimension kept some rows of the table and dropped others
C1_Witness ==
  /\ Filtered
  /\ NonAllList(selection[1])
  /\ Len(filtered_data.rows) > 0
  /\ Len(filtered_data.rows) < Len(data.rows)

\* C2: filter_data returns exactly the rows of the table that satisfy every
\* constrained dimension, in the order they have in the table
C2_FilterExactInOrder ==
  Filtered =>
    /\ filtered_data.cols = data.cols
    /\ filtered_data.rows = SelectSeq(data.rows, LAMBDA r : Matches(r, selection))

\* C2's case: two dimensions are constrained, two rows are kept and one is dropped
C2_Witness ==
  /\ Filtered
  /\ NonAllList(selection[1]) /\ NonAllList(selection[2])
  /\ Len(filtered_data.rows) >= 2
  /\ Len(filtered_data.rows) < Len(data.rows)

\* C3: a selection that is absent, empty or holds "All" constrains nothing:
\* the result is the result with that selection absent, and with ["All"] for
\* the affiliation and the other two unconstrained it is the whole table
C3_AllIsNoConstraint ==
  Filtered =>
    /\ Unconstraining(selection[1]) =>
         filtered_data = filter_data(data, NoSelection, selection[2], selection[3])
    /\ Unconstraining(selection[2]) =>
         filtered_data = filter_data(data, selection[1], NoSelection, selection[3])
    /\ Unconstraining(selection[3]) =>
         filtered_data = filter_data(data, selection[1], selection[2], NoSelection)
    /\ (selection[1] = List(<<All>>) /\ Unconstraining(selection[2])
          /\ Unconstraining(selection[3])) => filtered_data = data

\* C3's case: affiliation=["All"], "All" next to another value for the
\* complexity, on a table whose rows differ in both
C3_Witness ==
  /\ Filtered
  /\ selection[1] = List(<<All>>)
  /\ selection[2] = List(<<All, High>>)
  /\ selection[3] = NoSelection
  /\ \E i, j \in 1..Len(data.rows) :
       /\ data.rows[i]["affiliation_category"] # data.rows[j]["affiliation_category"]
       /\ data.rows[i]["complexity_category"] = High
       /\ data.rows[j]["complexity_category"] # High
  /\ filtered_data = data

\* C4: filtering the result again with the same selections gives the result
C4_FilterIdempotent ==
  Filtered =>
    filter_data(filtered_data, selection[1], selection[2], selection[3]) = filtered_data

\* C4's case: the first filtering dropped rows and kept rows
C4_Witness ==
  /\ Filtered
  /\ Len(filtered_data.rows) > 0
  /\ Len(filtered_data.rows) < Len(data.rows)
  /\ NonAllList(selection[2])

\* C5: when a column filter_data requires is missing from the table, the
\* result is the whole table, whatever the selections
C5_MissingColumnFailsOpen ==
  Filtered =>
    ((\E c \in FilterColumns : c \notin data.cols) => filtered_data = data)

\* C5's case: the timeline column is missing and the complexity selection
\* would have dropped a row
C5_Witness ==
  /\ Filtered
  /\ "timeline_first_contract" \notin data.cols
  /\ "complexity_category" \in data.cols
  /\ NonAllList(selection[2])
  /\ \E i \in 1..Len(data.rows) :
       data.rows[i]["complexity_category"] \notin seq_range(selection[2].items)
  /\ filtered_data = data

\* C6: once the dashboard is constructed, no filter_data call and no chart
\* builder call changes self.data
C6_BaseTableUnchanged == [][pc = "ready" => data' = data]_vars

\* C6's case: filter_data has dropped rows and a chart was built from the result
C6_Witness ==
  /\ Filtered
  /\ Len(filtered_data.rows) < Len(data.rows)
  /\ chart # NoChart

(***************************************************************************)
(* Properties of the cleaning pipeline.                                    *)
(***************************************************************************)
\* the category the stated bins give a numeric rating
stated_category(x) ==
  IF x.nan THEN NotRated
  ELSE CASE x.v = 5 -> VeryHigh
         [] x.v = 4 -> High
         [] x.v = 3 -> Moderate
         [] x.v = 2 -> Low
         [] x.v = 1 -> VeryLow
         [] OTHER -> NotRated

\* create_derived_features has just returned, and it had a rating to bin
Derived == pc = "ensure_required_columns" /\ "onboarding_complexity" \in data.cols

\* C7: the complexity_category create_derived_features computes is the
\* stated function of the numeric rating: 5 -> Very High, 4 -> High,
\* 3 -> Moderate, 2 -> Low, 1 -> Very Low, and Not Rated for a missing
\* rating or one outside the bins
C7_ComplexityBins ==
  Derived =>
    \A i \in 1..Len(data.rows) :
      data.rows[i]["complexity_category"] = stated_category(data.rows[i]["onboarding_complexity"])

\* what create_derived_features does compute as stated: a rating of 1..5
\* gets the label of its bin
RatedComplexityBins ==
  Derived =>
    \A i \in 1..Len(data.rows) :
      LET x == data.rows[i]["onboarding_complexity"]
      IN  (~x.nan /\ x.v \in 1..5) =>
            data.rows[i]["complexity_category"] = stated_category(x)

\* a missing cell of either kind of column
isna(x) == x = NA \/ x = NaN

\* construction is over and left at least one row in self.data
Constructed == pc = "ready" /\ Len(data.rows) >= 1

\* C8: in every table construction leaves in self.data with at least one
\* row, every row has a non-null affiliation_category and a non-null
\* complexity_category
C8_CategoriesNonNull ==
  Constructed =>
    /\ {"affiliation_category", "complexity_category"} \subseteq data.cols
    /\ \A i \in 1..Len(data.rows) :
         /\ ~isna(data.rows[i]["affiliation_category"])
         /\ ~isna(data.rows[i]["complexity_category"])

\* C8's case: the file had neither an affiliation nor a rating column, and
\* its rows came through with both categories backfilled
C8_Witness ==
  /\ Constructed
  /\ file.readable
  /\ RC_Affiliation \notin file.header /\ RC_Complexity \notin file.header
  /\ data.rows[1]["affiliation_category"] = Other
  /\ data.rows[1]["complexity_category"] = Moderate

\* C9: no entry of a list split_multi_entry_columns stores in a *_list
\* column is the empty string
C9_NoEmptyEntries ==
  \A c \in ListColumns \cap data.cols :
    \A i \in 1..Len(data.rows) :
      \A k \in 1..Len(data.rows[i][c]) : data.rows[i][c][k] # <<>>

(***************************************************************************)
(* Properties of the split of one answer.                                  *)
(***************************************************************************)
\* the entries of the answer, each trimmed
trimmed_entries == [i \in 1..Len(entries) |-> strip(entries[i])]

\* C10: for a text of comma-separated entries without commas inside an
\* entry, joining the split list with ", " gives the text with each entry
\* trimmed, and splitting the joined text gives the same list
C10_SplitJoinRoundTrip ==
  pc = "split_done" =>
    /\ join(<<",", " ">>, entry_list) = join(<<",", " ">>, trimmed_entries)
    /\ split_entries(join(<<",", " ">>, entry_list)) = entry_list

\* C10's case: two entries, one of them padded with blanks, have been split
C10_Witness ==
  /\ pc = "split_done"
  /\ Len(entries) >= 2
  /\ \E i \in 1..Len(entries) : entries[i] # <<>> /\ strip(entries[i]) # entries[i]
  /\ \E i \in 1..Len(entries) : strip(entries[i]) # <<>>
  /\ Len(entry_list) = Len(entries)

(***************************************************************************)
(* Properties of the hurdle indicator columns.                             *)
(***************************************************************************)
\* the labels of the indicator columns of the vocabulary
HurdleColumns == {hurdle_col_name(common_hurdles[k]) : k \in DOMAIN common_hurdles}

\* the phrase occurs in the text, character for character, at some offset
occurs_in(phrase, text) ==
  /\ text # NA
  /\ \E o \in 0..(Len(text) - Len(phrase)) :
       \A j \in 1..Len(phrase) : text[o + j] = phrase[j]

\* C11: for every row and every phrase of the vocabulary, the indicator
\* column of the phrase is 1 exactly when the phrase occurs, case-sensitively,
\* as a substring of the row's unsplit significant_hurdles text, and 0
\* otherwise; split_multi_entry_columns gives a table with that text all the
\* indicator columns
C11_IndicatorIsSubstringMatch ==
  /\ (pc = "standardize_text_entries" /\ "significant_hurdles" \in data.cols) =>
       HurdleColumns \subseteq data.cols
  /\ \A k \in DOMAIN common_hurdles :
       hurdle_col_name(common_hurdles[k]) \in data.cols =>
         \A i \in 1..Len(data.rows) :
           data.rows[i][hurdle_col_name(common_hurdles[k])] =
             IF occurs_in(common_hurdles[k], data.rows[i]["significant_hurdles"])
               THEN 1 ELSE 0

\* C11's case: a cleaned table with a row that names a phrase in lower case
\* and has its indicator 0, and a row that holds a phrase next to a comma
\* and has its indicator 1
C11_Witness ==
  /\ pc = "ready"
  /\ HurdleColumns \subseteq data.cols
  /\ \E i \in 1..Len(data.rows) :
       /\ data.rows[i]["significant_hurdles"] = lower(H_Cybersecurity)
       /\ data.rows[i]["hurdle_cybersecurity_requirements"] = 0
  /\ \E i \in 1..Len(data.rows) :
       /\ data.rows[i]["significant_hurdles"] = H_SAM \o <<",">>
       /\ data.rows[i]["hurdle_sam_gov_registration_complexity"] = 1

\* C12: every table that has hurdle indicator columns has the same ones,
\* those of the vocabulary of split_multi_entry_columns
C12_IndicatorColumnsFixed ==
  (data.cols \cap HurdleColumns # {}) => HurdleColumns \subseteq data.cols

\* the indicator values of a row, for the indicator columns the table has
indicators_are(r, cols, ones) ==
  \A k \in DOMAIN common_hurdles :
    hurdle_col_name(common_hurdles[k]) \in cols =>
      r[hurdle_col_name(common_hurdles[k])] = IF common_hurdles[k] \in ones THEN 1 ELSE 0

\* a cleaned row whose hurdles text is
\* "Cybersecurity requirements, Finding the right points of contact"
scenario_rows ==
  IF pc = "ready" /\ "significant_hurdles" \in data.cols
    THEN {i \in 1..Len(data.rows) : data.rows[i]["significant_hurdles"] = SampleHurdles}
    ELSE {}

\* C13 as stated: the row's list is the two phrases, the indicator of
\* "Cybersecurity requirements" is 1 and every other indicator is 0
C13_ScenarioAsStated ==
  \A i \in scenario_rows :
    /\ data.rows[i]["significant_hurdles_list"] = <<H_Cybersecurity, H_FindingContact>>
    /\ "hurdle_cybersecurity_requirements" \in data.cols
    /\ indicators_are(data.rows[i], data.cols, {H_Cybersecurity})

\* C13: the row's list is the two phrases, the indicators of both phrases
\* ("Cybersecurity requirements" and "Finding the right points of contact")
\* are 1 and every other indicator is 0
C13_ScenarioBothPhrases ==
  \A i \in scenario_rows :
    /\ data.rows[i]["significant_hurdles_list"] = <<H_Cybersecurity, H_FindingContact>>
    /\ {"hurdle_cybersecurity_requirements",
        "hurdle_finding_the_right_points_of_contact"} \subseteq data.cols
    /\ indicators_are(data.rows[i], data.cols, {H_Cybersecurity, H_FindingContact})

\* C13's case: the pipeline has cleaned a file with such a row and given it
\* all the indicator columns
C13_Witness ==
  /\ scenario_rows # {}
  /\ file.readable
  /\ HurdleColumns \subseteq data.cols
  /\ Len(data.rows) = Len(file.answers)

(***************************************************************************)
(* Properties of clean_data on particular inputs.                          *)
(***************************************************************************)
\* the affiliation_category the affiliation mapping gives each kind of respondent
kind_affiliation_category == <<SmallBusiness, Consultant, Other, Government, Other>>

\* the file holds the columns ID, Affiliation and Onboarding Complexity only,
\* and construction is over
three_columns_cleaned == pc = "ready" /\ file.readable /\ file.header = HeaderThree

\* C14: for an input whose only columns are ID, Affiliation and Onboarding
\* Complexity, the eight steps run on the rows of the file, which are not
\* replaced by the sample data; each row gets its affiliation_category from
\* the affiliation mapping and its complexity_category from the bin of its
\* rating, and the row (1, "Small business owner/employee seeking government
\* contracts", 4) gets "Small Business" and "High"
C14_ThreeColumnInput ==
  three_columns_cleaned =>
    /\ data # create_sample_data
    /\ Len(data.rows) <= Len(file.answers)
    /\ file.answers # <<>> => (Len(data.rows) >= 1 /\ data.rows[1]["id"] = 1)
    /\ \A c \in {"biggest_barriers_list", "needed_resources_list",
                 "significant_hurdles_list"} : c \in data.cols
    /\ \A i \in 1..Len(data.rows) :
         LET r == data.rows[i]
             answer == file.answers[r["id"]]
         IN  /\ r["id"] \in 1..Len(file.answers)
             /\ r["affiliation_category"] = kind_affiliation_category[answer]
             /\ (~r["onboarding_complexity"].nan /\ r["onboarding_complexity"].v \in 1..5) =>
                  r["complexity_category"] = stated_category(r["onboarding_complexity"])
             /\ answer = 1 =>
                  (r["affiliation_category"] = SmallBusiness /\ r["complexity_category"] = High)

\* C14's case: the file's first row is (1, "Small business owner/employee
\* seeking government contracts", 4) and it has come through as "Small
\* Business", "High", next to a row of another kind
C14_Witness ==
  /\ three_columns_cleaned
  /\ Len(data.rows) = 2
  /\ file.answers[1] = 1
  /\ data.rows[1]["affiliation"] = AffSmallBusiness
  /\ data.rows[1]["onboarding_complexity"] = Num(4)
  /\ data.rows[1]["complexity_category"] = High
  /\ data.rows[2]["affiliation_category"] # SmallBusiness

(***************************************************************************)
(* Properties of load_data.                                                *)
(***************************************************************************)
\* load_data is trying its tiers
Loading == pc \in {"load_data", "permissive_parse", "manual_parse", "synthetic_dataset"}

\* C15: for every file that fails the strict parse, the raw table load_data
\* ends with has at least one row
C15_FallbackTableNonEmpty ==
  (~Loading /\ strict_parse_raises(file)) => Len(raw_data.rows) >= 1

\* C16: when all three parses raise, the raw table is the synthetic dataset
\* of 3 rows under the 10 raw column names, and clean_data runs all its steps
\* on it: the cleaned table holds those 3 rows, not the sample's
C16_SyntheticDatasetCleaned ==
  (/\ strict_parse_raises(file)
   /\ permissive_parse_raises(file)
   /\ manual_parse_raises(file.lines)
   /\ ~Loading) =>
    /\ Len(raw_data.rows) = 3
    /\ raw_data.cols = {RC_ID, RC_Affiliation, RC_Hurdles, RC_Complexity, RC_Timeline,
                        RC_Barriers, RC_Change, RC_Factors, RC_Resources, RC_Stage}
    /\ Cardinality(raw_data.cols) = 10
    /\ \A i \in 1..3 : raw_data.rows[i][RC_ID] = i
    /\ pc = "ready" =>
         /\ data # create_sample_data
         /\ Len(data.rows) = 3
         /\ \A i \in 1..3 :
              /\ data.rows[i]["id"] = i
              /\ data.rows[i]["suggested_change"] = raw_data.rows[i][RC_Change]
              /\ data.rows[i]["affiliation_category"] = SmallBusiness
         /\ \A k \in DOMAIN required_columns : required_columns[k] \in data.cols

\* C16's case: there is no file, and construction is over with the three
\* synthetic rows cleaned
C16_Witness ==
  /\ file = NoFile
  /\ pc = "ready"
  /\ raw_data = synthetic_dataset
  /\ Len(data.rows) = 3
  /\ data.rows[2]["suggested_change"] = Chg_Portal
  /\ data.rows[3]["complexity_category"] = VeryHigh

\* the table of the first tier, in the order strict, permissive, manual,
\* synthetic, that does not raise
first_tier_result ==
  IF ~strict_parse_raises(file) THEN read_csv(file)
  ELSE IF ~permissive_parse_raises(file) THEN permissive_parse(file)
  ELSE IF ~manual_parse_raises(file.lines) THEN frame(manual_parse(file.lines))
  ELSE synthetic_dataset

\* where load_data stands: a tier is tried only when every tier before it
\* has raised, and no table is assigned before a tier succeeds
tiers_in_order ==
  /\ pc = "permissive_parse" => strict_parse_raises(file)
  /\ pc = "manual_parse" => (strict_parse_raises(file) /\ permissive_parse_raises(file))
  /\ pc = "synthetic_dataset" =>
       /\ strict_parse_raises(file) /\ permissive_parse_raises(file)
       /\ manual_parse_raises(file.lines)
  /\ Loading => raw_data = None
  /\ ~Loading => raw_data = first_tier_result

\* C18: the tiers are tried in the order strict, permissive, manual,
\* synthetic; a tier is tried only if the one before it raised; the raw
\* table is the result of the first tier that did not raise, and once
\* assigned it is not overwritten
C18_TiersInOrder ==
  /\ []tiers_in_order
  /\ [][~Loading => raw_data' = raw_data]_vars

\* C18's case: the strict and the permissive parse have raised and the
\* manual parse has given the raw table, with a row
C18_Witness ==
  /\ pc = "standardize_column_names"
  /\ strict_parse_raises(file) /\ permissive_parse_raises(file)
  /\ ~manual_parse_raises(file.lines)
  /\ raw_data = frame(manual_parse(file.lines))
  /\ Len(raw_data.rows) >= 1

(***************************************************************************)
(* Properties of the manual parse.                                         *)
(***************************************************************************)
\* the commas of the line that an even number of double quotes precede
split_points(l) ==
  {k \in 1..Len(l) :
     l[k] = "," /\ Cardinality({j \in 1..(k - 1) : l[j] = "\""}) % 2 = 0}

\* the m-th of them in line order; 0 before the first, Len(l) + 1 after the last
split_point(l, m) ==
  IF m = 0 THEN 0
  ELSE IF m > Cardinality(split_points(l)) THEN Len(l) + 1
  ELSE CHOOSE k \in split_points(l) :
         Cardinality({j \in split_points(l) : j < k}) = m - 1

\* the fields of the line: what lies between two such commas, the double
\* quotes left out
fields(l) ==
  [m \in 1..(Cardinality(split_points(l)) + 1) |->
     SelectSeq(SubSeq(l, split_point(l, m - 1) + 1, split_point(l, m) - 1),
               LAMBDA c : c # "\"")]

\* the number of fields of the header line
header_count(lines) == Cardinality({k \in 1..Len(lines[1]) : lines[1][k] = ","}) + 1

\* C19: the manual parse splits a line at a comma only when an even number
\* of double quotes precede the comma on the line; a line becomes a row only
\* if it has as many fields as the header, so every row has as many fields
\* as the header, and the other lines are discarded
C19_ManualParseRows ==
  pc = "manual_done" =>
    /\ Len(parsed.header) = header_count(file.lines)
    /\ \A i \in 1..Len(parsed.data) : Len(parsed.data[i]) = Len(parsed.header)
    /\ parsed.data =
         LET kept == SelectSeq(Tail(file.lines),
                               LAMBDA l : Len(fields(l)) = header_count(file.lines))
         IN  [i \in 1..Len(kept) |-> fields(kept[i])]

\* C19's case: of two lines one, whose comma is inside quotes, has become a
\* row with the comma in its field, and the other is discarded
C19_Witness ==
  /\ pc = "manual_done"
  /\ Len(file.lines) = 3
  /\ Len(parsed.data) = 1
  /\ \E j \in 1..Len(parsed.data[1]) : "," \in seq_range(parsed.data[1][j])

(***************************************************************************)
(* Properties of the ranked frequency tables.                              *)
(***************************************************************************)
\* the list column a chart counts
chart_column ==
  CASE chart.title = "Most Needed Resources for Small Businesses" -> "needed_resources_list"
    [] chart.title = "<b>Top 10 Most Challenging Factors for Small Businesses</b>" ->
         "challenging_factors_list"
    [] OTHER -> "biggest_barriers_list"

\* the number of occurrences of the item (of any item) in the column
occurrences(col, item) ==
  Cardinality({<<i, k>> \in (1..Len(filtered_data.rows)) \X (1..Len(RankItems)) :
                 /\ k <= Len(filtered_data.rows[i][col])
                 /\ filtered_data.rows[i][col][k] = item})

all_occurrences(col) ==
  Cardinality({<<i, k>> \in (1..Len(filtered_data.rows)) \X (1..Len(RankItems)) :
                 k <= Len(filtered_data.rows[i][col])})

RECURSIVE sum_counts(_)
sum_counts(bars) ==
  IF bars = <<>> THEN 0 ELSE Head(bars).count + sum_counts(Tail(bars))

\* C17: the counts of the ranked frequency table a chart builder shows (all
\* items, or the first ten) do not increase along the ranks, and their sum is
\* at most the number N of occurrences counted; each count is the number of
\* occurrences of its item
C17_RankedCounts ==
  chart # NoChart =>
    /\ \A i \in 1..(Len(chart.bars) - 1) : chart.bars[i].count >= chart.bars[i + 1].count
    /\ sum_counts(chart.bars) <= all_occurrences(chart_column)
    /\ \A i \in 1..Len(chart.bars) :
         chart.bars[i].count = occurrences(chart_column, chart.bars[i].key)
    /\ \A i, j \in 1..Len(chart.bars) : i # j => chart.bars[i].key # chart.bars[j].key

\* C17's case: a chart of ten bars cut from eleven items, the first bar with
\* a larger count than the last, the counts shown summing to less than N
C17_Witness ==
  /\ chart # NoChart
  /\ Len(chart.bars) = 10
  /\ chart.bars[1].count > chart.bars[10].count
  /\ sum_counts(chart.bars) < all_occurrences(chart_column)

(***************************************************************************)
(* Properties of the steps of clean_data.                                  *)
(***************************************************************************)
\* the step that follows each step of clean_data
following_step ==
  [s \in {"standardize_column_names", "convert_data_types", "handle_missing_values",
          "split_multi_entry_columns", "standardize_text_entries", "remove_duplicates",
          "create_derived_features", "ensure_required_columns"} |->
     CASE s = "standardize_column_names" -> "convert_data_types"
       [] s = "convert_data_types" -> "handle_missing_values"
       [] s = "handle_missing_values" -> "split_multi_entry_columns"
       [] s = "split_multi_entry_columns" -> "standardize_text_entries"
       [] s = "standardize_text_entries" -> "remove_duplicates"
       [] s = "remove_duplicates" -> "create_derived_features"
       [] s = "create_derived_features" -> "ensure_required_columns"
       [] s = "ensure_required_columns" -> "main"]

\* an exception is raised inside the step the pipeline is at: pd.to_numeric
\* and .dtype on a label that two columns carry
step_raises ==
  \/ pc = "convert_data_types" /\ "onboarding_complexity" \in data.dups
  \/ pc = "handle_missing_values" /\ data.dups # {}

\* C20: an exception raised inside a step of clean_data is caught within the
\* step, which leaves the table as it was before the step, and the following
\* step runs on it
C20_StepFailureContained ==
  [][(pc \in DOMAIN following_step /\ step_raises) =>
       (data' = data /\ pc' = following_step[pc])]_vars

(***************************************************************************)
(* Properties of the table clean_data returns.                             *)
(***************************************************************************)
\* the seven columns the rest of the dashboard depends on
SevenColumns ==
  {"affiliation_category", "complexity_category", "biggest_barriers_list",
   "needed_resources_list", "timeline_first_contract", "onboarding_complexity",
   "significant_hurdles_list"}

\* the cell is the default stated for the column: "Other", "Moderate", an
\* empty list, or null
is_stated_default(c, x) ==
  CASE c = "affiliation_category" -> x = Other
    [] c = "complexity_category" -> x = Moderate
    [] c \in {"biggest_barriers_list", "needed_resources_list", "significant_hurdles_list"} ->
         x = <<>>
    [] c = "onboarding_complexity" -> x = NaN
    [] OTHER -> x = NA

\* C21: whenever clean_data has returned, after its eight steps or after
\* replacing the table with the sample data, the table has all seven required
\* columns; a column absent after step 7 is created by step 8 with its
\* default in every row, and step 8 changes no other cell
C21_RequiredColumnsPresent ==
  /\ [](pc \in {"main", "ready"} => SevenColumns \subseteq data.cols)
  /\ [][pc = "ensure_required_columns" =>
          /\ data'.cols = data.cols \cup SevenColumns
          /\ Len(data'.rows) = Len(data.rows)
          /\ \A i \in 1..Len(data.rows) :
               \A c \in data'.cols :
                 IF c \in data.cols
                   THEN data'.rows[i][c] = data.rows[i][c]
                   ELSE is_stated_default(c, data'.rows[i][c])]_vars

\* C21's case: a file with the hurdles and barriers columns only has been
\* cleaned, and its first row has the defaults in the five columns no step
\* before the last created
C21_Witness ==
  /\ pc = "ready"
  /\ file.readable /\ file.header = HeaderNoCategories
  /\ Len(data.rows) >= 1
  /\ data.rows[1]["needed_resources_list"] = <<>>
  /\ data.rows[1]["timeline_first_contract"] = NA
  /\ data.rows[1]["onboarding_complexity"] = NaN
  /\ data.rows[1]["affiliation_category"] = Other
  /\ data.rows[1]["complexity_category"] = Moderate
  /\ data.rows[1]["biggest_barriers_list"] # <<>>

(***************************************************************************)
(* Properties of the column rename.                                        *)
(***************************************************************************)
\* C22: when no header of the table is a key of the dictionary, the rename
\* step replaces every column name by its generic normalization (lowercased,
\* question marks removed, whitespace, slashes and parentheses collapsed to
\* single underscores, a trailing underscore removed)
C22_GenericNormalization ==
  (pc = "convert_data_types" /\ raw_data.cols \subseteq OtherHeaders) =>
    {header_text(c) : c \in data.cols} =
      {clean_column_name(header_text(c)) : c \in raw_data.cols}

(***************************************************************************)
(* Properties of the affiliation mapping.                                  *)
(***************************************************************************)
\* the six categories
AffiliationCategories ==
  {SmallBusiness, LargeContractor, Government, Consultant, Academic, Other}

\* the exact-match dictionary, as pairs of answer and category
exact_matches ==
  {<<AffSmallBusiness, SmallBusiness>>, <<AffLargeContractor, LargeContractor>>,
   <<AffGovernment, Government>>, <<AffConsultant, Consultant>>,
   <<AffAcademic, Academic>>, <<AffOther, Other>>}

\* the lower-case phrase occurs in the text, letter case ignored
has_phrase(phrase, text) ==
  \E o \in 0..(Len(text) - Len(phrase)) :
    \A j \in 1..Len(phrase) : lower_char(text[o + j]) = phrase[j]

\* the category stated for an affiliation text
stated_affiliation_category(text) ==
  LET t == strip(text)
  IN  IF \E p \in exact_matches : p[1] = t
        THEN (CHOOSE p \in exact_matches : p[1] = t)[2]
      ELSE IF has_phrase(sub_small_business, t) THEN SmallBusiness
      ELSE IF has_phrase(sub_large, t) /\ has_phrase(sub_contractor, t) THEN LargeContractor
      ELSE IF has_phrase(sub_government, t) THEN Government
      ELSE IF has_phrase(sub_consultant, t) \/ has_phrase(sub_advisor, t) THEN Consultant
      ELSE IF has_phrase(sub_academic, t) \/ has_phrase(sub_research, t) THEN Academic
      ELSE Other

\* C23: for every affiliation text the category is one of the six; it is the
\* dictionary's entry for the trimmed text when there is one, and otherwise
\* the first that applies of the case-insensitive substring checks "small
\* business", "large" and "contractor", "government", "consultant" or
\* "advisor", "academic" or "research", and "Other" when none does
C23_AffiliationCategory ==
  pc = "remove_duplicates" =>
    \A i \in 1..Len(data.rows) :
      /\ data.rows[i]["affiliation_category"] \in AffiliationCategories
      /\ data.rows[i]["affiliation"] # NA =>
           data.rows[i]["affiliation_category"] =
             stated_affiliation_category(data.rows[i]["affiliation"])

\* C23's case: the padded answer "Consultant/advisor to businesses seeking
\* government contracts", which the substring checks alone would call
\* Government, has been mapped to Consultant by the dictionary
C23_Witness ==
  /\ pc = "remove_duplicates"
  /\ data.rows[1]["affiliation"] = <<" ">> \o AffConsultant \o <<" ", "\n">>
  /\ has_phrase(sub_government, data.rows[1]["affiliation"])
  /\ data.rows[1]["affiliation_category"] = Consultant

(***************************************************************************)
(* Properties of remove_duplicates.                                        *)
(***************************************************************************)
\* the columns of hashable scalars: neither the identifier nor a list column
scalar_columns(df) ==
  df.cols \ {"id", RC_ID, "significant_hurdles_list", "biggest_barriers_list",
             "challenging_factors_list", "needed_resources_list"}

has_identifier(df) == "id" \in df.cols \/ RC_ID \in df.cols

\* the rows that no earlier row of the table equals on the columns
first_of_group(df, columns) ==
  {i \in 1..Len(df.rows) :
     \A j \in 1..(i - 1) : \E c \in columns : df.rows[j][c] # df.rows[i][c]}

\* the k-th smallest member of a set of numbers
kth(S, k) == CHOOSE i \in S : Cardinality({j \in S : j < i}) = k - 1

\* C24: when the table has an identifier column and a hashable scalar
\* column, remove_duplicates leaves no two rows equal on all hashable scalar
\* columns, every row it leaves is a row of its input, and of each group of
\* duplicates it keeps the first in table order; without an identifier
\* column or without a hashable column it leaves the table unchanged
C24_RemoveDuplicates ==
  [][pc = "remove_duplicates" =>
       IF has_identifier(data) /\ scalar_columns(data) # {}
         THEN LET first == first_of_group(data, scalar_columns(data))
              IN  /\ data'.cols = data.cols
                  /\ Len(data'.rows) = Cardinality(first)
                  /\ \A k \in 1..Len(data'.rows) : data'.rows[k] = data.rows[kth(first, k)]
                  /\ \A k, l \in 1..Len(data'.rows) :
                       k # l => \E c \in scalar_columns(data) :
                                  data'.rows[k][c] # data'.rows[l][c]
         ELSE data' = data]_vars

\* C24's case: the file had two respondents with different identifiers and
\* the same answers, and the first of them is the one row left
C24_Witness ==
  /\ pc = "create_derived_features"
  /\ file.readable /\ Len(file.answers) = 2
  /\ "id" \in data.cols
  /\ Len(data.rows) = 1
  /\ data.rows[1]["id"] = 1

(***************************************************************************)
(* Properties of the percentage annotation.                                *)
(***************************************************************************)
\* the chart is the challenging factors chart, the one with percentages
factors_chart == chart.title = "<b>Top 10 Most Challenging Factors for Small Businesses</b>"

\* the distinct values of the column
distinct_values(col) ==
  UNION {seq_range(filtered_data.rows[i][col]) : i \in 1..Len(filtered_data.rows)}

\* the percentages of the bars, which share a denominator, summed: the
\* numerator of the sum
RECURSIVE sum_percentage_num(_)
sum_percentage_num(bars) ==
  IF bars = <<>> THEN 0 ELSE Head(bars).percentage.num + sum_percentage_num(Tail(bars))

\* the percentages of the bars sum to 100%
sums_to_100(bars) ==
  /\ bars # <<>>
  /\ \A i \in 1..Len(bars) : bars[i].percentage.den = bars[1].percentage.den
  /\ sum_percentage_num(bars) = 100 * bars[1].percentage.den

placeholder ==
  /\ chart.bars = <<>>
  /\ chart.title \in {"No barrier data available", "No complexity data available",
                      "Error creating complexity chart", "No correlation data available",
                      "Error creating correlation heatmap"}

\* the builder whose result the chart is
by_hurdles_chart == chart.title = "Most Significant Onboarding Hurdles"
by_barriers_chart ==
  chart.title \in {"Top 10 Barriers for Small Businesses", "No barrier data available"}
by_complexity_chart ==
  chart.title \in {"Onboarding Complexity by Respondent Type", "No complexity data available",
                   "Error creating complexity chart"}

\* the table has no hurdle indicator column
no_hurdle_column == filtered_data.cols \cap HurdleColumns = {}

\* the table has no barriers column, or no barrier in it
no_barrier ==
  \/ "biggest_barriers_list" \notin filtered_data.cols
  \/ \A i \in 1..Len(filtered_data.rows) : filtered_data.rows[i]["biggest_barriers_list"] = <<>>

\* C26: a chart builder whose column is missing from the table, or whose
\* frequency bag is empty, returns a placeholder chart that carries a title
\* only
C26_PlaceholderWithoutData ==
  /\ (by_hurdles_chart /\ no_hurdle_column) => placeholder
  /\ (by_barriers_chart /\ no_barrier) => placeholder
  /\ (by_complexity_chart /\ ~({"affiliation_category", "onboarding_complexity"}
                                  \subseteq filtered_data.cols)) => placeholder

\* C27: every chart builder is a pure function of the filtered table: a call
\* of the builder whose result the chart already is, on the same table,
\* returns the same chart, and no call changes the table or any other part
\* of the dashboard's state
C27_BuildersArePure ==
  [][pc = "ready" /\ filtered_data # None /\ filtered_data' = filtered_data =>
       /\ data' = data /\ raw_data' = raw_data
       /\ (chart # NoChart /\ chart'.title = chart.title) => chart' = chart]_vars

(***************************************************************************)
(* Properties of an exception inside clean_data.                           *)
(***************************************************************************)
\* the table create_sample_data builds: five rows, ids 1..5, the ratings
\* 4, 3, 5, 4, 3
is_fixed_sample(df) ==
  /\ Len(df.rows) = SampleRows
  /\ {"id", "onboarding_complexity"} \subseteq df.cols
  /\ \A i \in 1..SampleRows :
        /\ df.rows[i]["id"] = i
        /\ df.rows[i]["onboarding_complexity"] = Num(<<4, 3, 5, 4, 3>>[i])

\* C28: whenever an exception escapes a step of clean_data, the whole table
\* is replaced by the fixed 5-row sample and main shows the sample-data
\* warning.
C28_ExceptionGivesSampleAndWarning ==
  /\ [][pc = "handle_missing_values" /\ handle_missing_values_raises(data) =>
          is_fixed_sample(data') /\ pc' = "main"]_vars
  /\ [][pc = "main" /\ is_fixed_sample(data) => warning' /\ data' = data]_vars
  /\ [](pc = "ready" /\ file.readable /\ file.header = HeaderDoubleId =>
          warning /\ is_fixed_sample(data))

\* a file whose header holds the identifier twice is constructed into the
\* sample with the warning shown
C28_Witness ==
  /\ pc = "ready"
  /\ file.readable /\ file.header = HeaderDoubleId
  /\ standardize_column_names(raw_data).dups # {}
  /\ is_fixed_sample(data)
  /\ warning

(***************************************************************************)
(* Properties of a missing multi-value answer.                             *)
(***************************************************************************)
\* the file holds the survey's columns and construction is over
survey_cleaned == pc = "ready" /\ file.readable /\ file.header = HeaderSurvey

\* C29: handle_missing_values runs before split_multi_entry_columns, so a
\* row whose multi-value answer is missing gets the one-element list
\* ["Not provided"] in the list column, never the empty list, and has all
\* hurdle indicators 0.
C29_MissingAnswerListed ==
  survey_cleaned =>
    \A i \in 1..Len(data.rows) :
      LET r == data.rows[i]
          answer == Kinds[file.answers[r["id"]]]
      IN  /\ answer.hur = NA =>
                /\ r["significant_hurdles_list"] = <<NotProvided>>
                /\ \A h \in HurdleColumns : r[h] = 0
          /\ answer.bar = NA => r["biggest_barriers_list"] = <<NotProvided>>
          /\ answer.res = NA => r["needed_resources_list"] = <<NotProvided>>

====
